---- MODULE Spec2Model ----
(***************************************************************************)
(* Model of the season-pack engine of crowdclient-qbittorrent: pack        *)
(* detection, directory walks, episode identity extraction and the run of  *)
(* main().  A path is a sequence of names, a file system is the sequence   *)
(* of its nodes in the order filepath.WalkDir visits them, and the regular *)
(* expressions of the source are evaluated character by character.         *)
(***************************************************************************)
EXTENDS Integers, Sequences, FiniteSets, TLC

VARIABLES
    pc,         \* position of the operation being run
    jobName,    \* cleanJobName: the release name handed to the run
    fs,         \* the file system: its nodes in walk order
    finalDir,   \* the content path handed to the run
    res,        \* the result of the operation that ran last (a record)
    config,     \* the configuration main loaded
    episodes,   \* the episodes processSeasonPack works through
    idx,        \* the index of the next episode
    uploads,    \* the requests sent to CrowdNFO, in order
    results,    \* the result of every episode (or single release) processed
    ppCalls,    \* the number of calls of executePostProcessing
    failures    \* the number of steps the environment has failed

vars == <<pc, jobName, fs, finalDir, res,
         config, episodes, idx, uploads, results, ppCalls, failures>>

\* the state of a run of main
runVars == <<config, episodes, idx, uploads, results, ppCalls, failures>>

---------------------------------------------------------------------------
(* Characters and the helpers of package strings.  A string is a TLA+      *)
(* string: Len, SubSeq and \o act on its characters.                       *)

UpperChars == "ABCDEFGHIJKLMNOPQRSTUVWXYZ"

LowerChars == "abcdefghijklmnopqrstuvwxyz"

DigitChars == "0123456789"

\* the characters of the model's names in byte order (what os.ReadDir sorts by)
ByteOrder == " -.0123456789ABCDEFGHIJKLMNOPQRSTUVWXYZ_abcdefghijklmnopqrstuvwxyz"

CharsOf(s) == {SubSeq(s, i, i) : i \in 1..Len(s)}

Digits == CharsOf(DigitChars)

Uppers == CharsOf(UpperChars)

Lowers == CharsOf(LowerChars)

\* \w of Go's regexp: [0-9A-Za-z_]
IsWordChar(c) == c \in Digits \cup Uppers \cup Lowers \cup {"_"}

IndexIn(alphabet, c) == CHOOSE i \in 1..Len(alphabet) : SubSeq(alphabet, i, i) = c

ToLowerChar(c) ==
    IF c \in Uppers
    THEN LET i == IndexIn(UpperChars, c) IN SubSeq(LowerChars, i, i)
    ELSE c

ToUpperChar(c) ==
    IF c \in Lowers
    THEN LET i == IndexIn(LowerChars, c) IN SubSeq(UpperChars, i, i)
    ELSE c

RECURSIVE ToLower(_)
ToLower(s) ==
    IF Len(s) = 0 THEN ""
    ELSE ToLowerChar(SubSeq(s, 1, 1)) \o ToLower(SubSeq(s, 2, Len(s)))

RECURSIVE ToUpper(_)
ToUpper(s) ==
    IF Len(s) = 0 THEN ""
    ELSE ToUpperChar(SubSeq(s, 1, 1)) \o ToUpper(SubSeq(s, 2, Len(s)))

EqualFold(s, t) == ToLower(s) = ToLower(t)

\* the character at position i, "" outside the string
At(s, i) == IF i >= 1 /\ i <= Len(s) THEN SubSeq(s, i, i) ELSE ""

\* s[i:j] of Go, 1-based and inclusive, "" when empty
Slice(s, i, j) == IF i <= j /\ i >= 1 /\ j <= Len(s) THEN SubSeq(s, i, j) ELSE ""

\* (?i)x for a letter x given in lower case
IsCI(s, i, x) == ToLowerChar(At(s, i)) = x

\* \b before position i (between s[i-1] and s[i])
WordBoundary(s, i) == IsWordChar(At(s, i - 1)) # IsWordChar(At(s, i))

\* the digits at positions i .. i+k-1
DigitsAt(s, i, k) == \A j \in i..(i + k - 1) : At(s, j) \in Digits

HasPrefix(s, p) == Len(s) >= Len(p) /\ SubSeq(s, 1, Len(p)) = p

HasSuffix(s, p) == Len(s) >= Len(p) /\ SubSeq(s, Len(s) - Len(p) + 1, Len(s)) = p

TrimSuffix(s, p) == IF HasSuffix(s, p) THEN Slice(s, 1, Len(s) - Len(p)) ELSE s

---------------------------------------------------------------------------
(* isSeasonPack                                                            *)

\* (?i)\bS\d{2,4}\b matched at position i
SeasonTokenAt(s, i) ==
    /\ WordBoundary(s, i)
    /\ IsCI(s, i, "s")
    /\ \E k \in 2..4 : DigitsAt(s, i + 1, k) /\ WordBoundary(s, i + 1 + k)

\* (?i)\bS\d{2,4}E\d{2,4}\b matched at position i
EpisodeTokenAt(s, i) ==
    /\ WordBoundary(s, i)
    /\ IsCI(s, i, "s")
    /\ \E k \in 2..4 :
          /\ DigitsAt(s, i + 1, k)
          /\ IsCI(s, i + 1 + k, "e")
          /\ \E m \in 2..4 : /\ DigitsAt(s, i + 2 + k, m)
                             /\ WordBoundary(s, i + 2 + k + m)

\* (?i)\bS(20\d{2})\b matched at position i
IsoYearTokenAt(s, i) ==
    /\ WordBoundary(s, i)
    /\ IsCI(s, i, "s")
    /\ At(s, i + 1) = "2"
    /\ At(s, i + 2) = "0"
    /\ DigitsAt(s, i + 3, 2)
    /\ WordBoundary(s, i + 5)

\* isSeasonPack without the exclusion of names that hold an episode token
isSeasonPack_NoEpisodeCheck(name) ==
    \/ \E i \in 1..Len(name) : SeasonTokenAt(name, i)
    \/ \E i \in 1..Len(name) : IsoYearTokenAt(name, i)

\* isSeasonPack without the check of the year pattern
isSeasonPack_NoIsoYear(name) ==
    /\ \E i \in 1..Len(name) : SeasonTokenAt(name, i)
    /\ ~ \E i \in 1..Len(name) : EpisodeTokenAt(name, i)

isSeasonPack(name) ==
    \/ /\ \E i \in 1..Len(name) : SeasonTokenAt(name, i)
       /\ ~ \E i \in 1..Len(name) : EpisodeTokenAt(name, i)
    \/ \E i \in 1..Len(name) : IsoYearTokenAt(name, i)

---------------------------------------------------------------------------
(* Paths (package path/filepath) and the file system.  A node is           *)
(*   [path, dir, size, ok]: ok is whether ReadDir of a directory, or       *)
(*   Info/Stat of a file, succeeds.                                        *)

Base(path) == path[Len(path)]

Dir(path) == SubSeq(path, 1, Len(path) - 1)

Join(dir, name) == Append(dir, name)

IsUnder(path, root) ==
    Len(path) >= Len(root) /\ SubSeq(path, 1, Len(root)) = root

LastDot(name) ==
    LET dots == {i \in 1..Len(name) : SubSeq(name, i, i) = "."}
    IN  IF dots = {} THEN 0 ELSE CHOOSE i \in dots : \A j \in dots : j <= i

\* filepath.Ext: the suffix from the last dot of the name, "" without a dot
Ext(name) ==
    IF LastDot(name) = 0 THEN "" ELSE SubSeq(name, LastDot(name), Len(name))

RECURSIVE JoinSlash(_)
JoinSlash(names) ==
    IF Len(names) = 0 THEN ""
    ELSE IF Len(names) = 1 THEN names[1]
    ELSE names[1] \o "/" \o JoinSlash(Tail(names))

\* a relative path that keeps the name of the base directory
RelSlash_FromParent(base, path) ==
    JoinSlash(SubSeq(path, Len(base), Len(path)))

\* filepath.ToSlash(filepath.Rel(base, path)) for a path under base
RelSlash(base, path) ==
    IF Len(path) = Len(base) THEN "."
    ELSE JoinSlash(SubSeq(path, Len(base) + 1, Len(path)))

mediaInfoExtensions ==
    { ".mkv", ".mp4", ".avi", ".mov", ".wmv", ".flv", ".mpeg", ".mpg", ".webm",
      ".m4v", ".divx", ".xvid", ".mp3", ".aac", ".flac", ".wav", ".ogg", ".opus",
      ".m4a", ".mka", ".wma", ".alac", ".dts", ".dtshd", ".ac3", ".eac3", ".ec3",
      ".m4b" }

hashOnlyExtensions == { ".iso", ".img" }

audioExts ==
    { ".mp3", ".aac", ".flac", ".wav", ".ogg", ".opus", ".m4a", ".mka", ".wma",
      ".alac", ".dts", ".dtshd", ".ac3", ".eac3", ".ec3", ".m4b" }

isAudioExtension(ext) == ext \in audioExts

\* the extension test of findAllVideoFiles and findBiggestFile
IsVideoName(name) ==
    LET ext == ToLower(Ext(name))
    IN  ext \in mediaInfoExtensions /\ ~isAudioExtension(ext)

isHashOnlyFile(name) == ToLower(Ext(name)) \in hashOnlyExtensions

NodeAt(fsys, path) == CHOOSE n \in {fsys[i] : i \in 1..Len(fsys)} : n.path = path

Exists(fsys, path) == \E i \in 1..Len(fsys) : fsys[i].path = path

IsBigCandidate(n) == IsVideoName(Base(n.path)) \/ isHashOnlyFile(Base(n.path))

(* filepath.WalkDir(root, fn) for the callbacks of this program: fn        *)
(* returns the error it is handed (Lstat of the root, ReadDir of a         *)
(* directory), returns nil for a directory, and for a file whose path is   *)
(* in needsInfo calls d.Info() and returns its error.  The walk stops at   *)
(* the first error.  Result: the files fn handled without error, in walk   *)
(* order, and whether the walk returned an error.                          *)
WalkDir(fsys, root, needsInfo) ==
    LET InTree(n) == IsUnder(n.path, root)
        sub == SelectSeq(fsys, InTree)
        Fails(n) == IF n.dir THEN ~n.ok ELSE n.path \in needsInfo /\ ~n.ok
        hits == {i \in 1..Len(sub) : Fails(sub[i])}
        stop == IF hits = {} THEN Len(sub) + 1
                ELSE CHOOSE i \in hits : \A j \in hits : i <= j
        IsFile(n) == ~n.dir
        exists == Len(sub) > 0 /\ sub[1].path = root
    IN  IF ~exists THEN [files |-> <<>>, err |-> TRUE]
        ELSE [files |-> SelectSeq(SubSeq(sub, 1, stop - 1), IsFile),
              err |-> stop <= Len(sub)]

\* the callbacks that never call d.Info()
NoInfo == {}

\* the callback of createFileList calls d.Info() for every file
AlwaysInfo(fsys) == {fsys[i].path : i \in 1..Len(fsys)}

\* the callback of findBiggestFile calls d.Info() for videos and images
BigCandidates(fsys) ==
    {fsys[i].path : i \in {j \in 1..Len(fsys) : IsBigCandidate(fsys[j])}}

VideoFile(n) == [Path |-> n.path, Dir |-> Dir(n.path), Name |-> Base(n.path)]

findAllVideoFiles(fsys, dir) ==
    LET w == WalkDir(fsys, dir, NoInfo)
        IsVideo(n) == IsVideoName(Base(n.path))
        found == SelectSeq(w.files, IsVideo)
    IN  [videoFiles |-> [i \in 1..Len(found) |-> VideoFile(found[i])],
         err |-> w.err]

MinVideoFiles == 3

isSeasonPackFallback(fsys, dir) ==
    LET r == findAllVideoFiles(fsys, dir)
    IN  IF r.err THEN FALSE ELSE Len(r.videoFiles) >= MinVideoFiles

FileListEntry(base, n) ==
    [FilePath |-> RelSlash(base, n.path), FileSizeBytes |-> n.size]

createFileList(fsys, dir) ==
    LET w == WalkDir(fsys, dir, AlwaysInfo(fsys))
    IN  [entries |-> [i \in 1..Len(w.files) |-> FileListEntry(dir, w.files[i])],
         err |-> w.err]

\* the fold of findBiggestFile: a file replaces the biggest only when larger
RECURSIVE Biggest(_, _, _)
Biggest(files, bestPath, bestSize) ==
    IF Len(files) = 0 THEN bestPath
    ELSE LET n == Head(files)
         IN  IF IsBigCandidate(n) /\ n.size > bestSize
             THEN Biggest(Tail(files), n.path, n.size)
             ELSE Biggest(Tail(files), bestPath, bestSize)

findBiggestFile(fsys, dir) ==
    LET w == WalkDir(fsys, dir, BigCandidates(fsys))
    IN  [file |-> Biggest(w.files, <<>>, 0), err |-> w.err]

---------------------------------------------------------------------------
(* Directory listings and stat.                                            *)

NoPath == <<>>

\* os.Stat(path): a directory answers stat also when it cannot be listed
StatOK(fsys, path) ==
    Exists(fsys, path) /\ (NodeAt(fsys, path).dir \/ NodeAt(fsys, path).ok)

\* os.ReadDir(dir): the entries of dir sorted by name, or an error
ReadDir(fsys, dir) ==
    LET IsEntry(n) == Len(n.path) = Len(dir) + 1 /\ IsUnder(n.path, dir)
    IN  IF Exists(fsys, dir) /\ NodeAt(fsys, dir).dir /\ NodeAt(fsys, dir).ok
        THEN [entries |-> SelectSeq(fsys, IsEntry), err |-> FALSE]
        ELSE [entries |-> <<>>, err |-> TRUE]

IsNfoName(name) == HasSuffix(ToLower(name), ".nfo")

---------------------------------------------------------------------------
(* Episode identity: the patterns of extractEpisodeInfo and its helpers.   *)

\* (?i)S(\d{2,4})E(\d{2,4}) matched at position i with k season digits
EpisodeAt(s, i, k) ==
    /\ IsCI(s, i, "s")
    /\ DigitsAt(s, i + 1, k)
    /\ IsCI(s, i + 1 + k, "e")
    /\ DigitsAt(s, i + 2 + k, 2)

EpisodeStarts(s) == {i \in 1..Len(s) : \E k \in 2..4 : EpisodeAt(s, i, k)}

\* the longest run of 2 to 4 digits from position i (a greedy \d{2,4})
GreedyDigits(s, i) ==
    CHOOSE m \in 2..4 : DigitsAt(s, i, m) /\ (m = 4 \/ ~DigitsAt(s, i, m + 1))

\* FindStringSubmatch of the episode pattern: the leftmost match
FindEpisode(s) ==
    IF EpisodeStarts(s) = {} THEN [found |-> FALSE]
    ELSE LET i == CHOOSE a \in EpisodeStarts(s) : \A b \in EpisodeStarts(s) : a <= b
             k == CHOOSE n \in 2..4 : EpisodeAt(s, i, n)
             m == GreedyDigits(s, i + 2 + k)
         IN  [found |-> TRUE,
              season |-> SubSeq(s, i + 1, i + k),
              episode |-> SubSeq(s, i + 2 + k, i + 1 + k + m)]

\* (\d{4}-\d{2}-\d{2}) matched at position i
IsoDateAt(s, i) ==
    /\ DigitsAt(s, i, 4)
    /\ At(s, i + 4) = "-"
    /\ DigitsAt(s, i + 5, 2)
    /\ At(s, i + 7) = "-"
    /\ DigitsAt(s, i + 8, 2)

FindIsoDate(s) ==
    LET starts == {i \in 1..Len(s) : IsoDateAt(s, i)}
    IN  IF starts = {} THEN [found |-> FALSE]
        ELSE LET i == CHOOSE a \in starts : \A b \in starts : a <= b
             IN  [found |-> TRUE, date |-> SubSeq(s, i, i + 9)]

RECURSIVE RemoveChars(_, _)
RemoveChars(s, chars) ==
    IF Len(s) = 0 THEN ""
    ELSE (IF At(s, 1) \in chars THEN "" ELSE At(s, 1))
         \o RemoveChars(Slice(s, 2, Len(s)), chars)

normalizeString(s) == RemoveChars(ToLower(s), {".", " "})

\* S\d{2,4} starts at position j (two digits are enough for a match)
SeasonHead(s, j) == IsCI(s, j, "s") /\ DigitsAt(s, j + 1, 2)

EpisodeHead(s, j) == \E k \in 2..4 : EpisodeAt(s, j, k)

\* the head of seasonPattern ("season") or of episodePattern ("episode")
HeadAt(pattern, s, j) ==
    IF pattern = "season" THEN SeasonHead(s, j) ELSE EpisodeHead(s, j)

\* the group of ^(.+?)\.?HEAD: the shortest non-empty prefix after which,
\* with or without one dot, the pattern's head matches; 0 when there is none
LazyPrefixLen(s, pattern) ==
    LET fits == {n \in 1..Len(s) :
                    \/ HeadAt(pattern, s, n + 1)
                    \/ At(s, n + 1) = "." /\ HeadAt(pattern, s, n + 2)}
    IN  IF fits = {} THEN 0 ELSE CHOOSE n \in fits : \A m \in fits : n <= m

\* every name with a season/episode token passes, whatever stands before it
isValidEpisodeFileName_AnyPrefix(fileName, seasonPackName) ==
    EpisodeStarts(fileName) # {}

isValidEpisodeFileName(fileName, seasonPackName) ==
    LET sp == LazyPrefixLen(seasonPackName, "season")
        ep == LazyPrefixLen(fileName, "episode")
    IN  /\ sp > 0
        /\ ep > 0
        /\ normalizeString(SubSeq(seasonPackName, 1, sp))
             = normalizeString(SubSeq(fileName, 1, ep))

\* no name counts as entirely lower-case
isCompletelyLowercase_Never(s) == FALSE

isCompletelyLowercase(s) ==
    /\ \A i \in 1..Len(s) : At(s, i) \notin Uppers
    /\ \E i \in 1..Len(s) : At(s, i) \in Lowers

\* the word w, in any case, stands at position i between word boundaries
WordAt(s, i, w) ==
    /\ WordBoundary(s, i)
    /\ ToLower(Slice(s, i, i + Len(w) - 1)) = w
    /\ WordBoundary(s, i + Len(w))

\* ReplaceAllString of (?i)\b(COMPLETE|iNCOMPLETE)\b by "", from position i
RECURSIVE RemoveMarkers(_, _)
RemoveMarkers(s, i) ==
    IF i > Len(s) THEN ""
    ELSE IF WordAt(s, i, "complete") THEN RemoveMarkers(s, i + 8)
    ELSE IF WordAt(s, i, "incomplete") THEN RemoveMarkers(s, i + 10)
    ELSE At(s, i) \o RemoveMarkers(s, i + 1)

RECURSIVE TrimSpace(_)
TrimSpace(s) ==
    IF Len(s) = 0 THEN ""
    ELSE IF At(s, 1) = " " THEN TrimSpace(Slice(s, 2, Len(s)))
    ELSE IF At(s, Len(s)) = " " THEN TrimSpace(Slice(s, 1, Len(s) - 1))
    ELSE s

\* the digits of the season token (?i)\bS(\d{2,4})\b at position i
SeasonTokenLen(s, i) ==
    CHOOSE k \in 2..4 : DigitsAt(s, i + 1, k) /\ WordBoundary(s, i + 1 + k)

\* ReplaceAllStringFunc: every season token becomes S + its digits + episodeNum
RECURSIVE ReplaceSeasonTokens(_, _, _)
ReplaceSeasonTokens(s, i, episodeNum) ==
    IF i > Len(s) THEN ""
    ELSE IF SeasonTokenAt(s, i)
         THEN LET k == SeasonTokenLen(s, i)
              IN  "S" \o SubSeq(s, i + 1, i + k) \o episodeNum
                  \o ReplaceSeasonTokens(s, i + 1 + k, episodeNum)
         ELSE At(s, i) \o ReplaceSeasonTokens(s, i + 1, episodeNum)

\* the season token rewritten, the COMPLETE/iNCOMPLETE markers left in place
generateEpisodeReleaseName_KeepsMarkers(seasonPackName, episodeNum) ==
    ReplaceSeasonTokens(TrimSpace(seasonPackName), 1, episodeNum)

generateEpisodeReleaseName(seasonPackName, episodeNum) ==
    ReplaceSeasonTokens(TrimSpace(RemoveMarkers(seasonPackName, 1)), 1, episodeNum)

\* the .nfo files among the entries of dir, in listing order
NfoEntries(fsys, dir) ==
    LET IsNfo(n) == ~n.dir /\ IsNfoName(Base(n.path))
    IN  SelectSeq(ReadDir(fsys, dir).entries, IsNfo)

findNFOInDirectory(fsys, dir) ==
    IF NfoEntries(fsys, dir) = <<>> THEN NoPath ELSE NfoEntries(fsys, dir)[1].path

\* the first .nfo of dir whose name holds no sXXeXX
findGeneralNFO(fsys, dir) ==
    LET IsGeneral(n) == EpisodeStarts(Base(n.path)) = {}
        general == SelectSeq(NfoEntries(fsys, dir), IsGeneral)
    IN  IF general = <<>> THEN NoPath ELSE general[1].path

\* a unit without a key that carries the name of the file as its release name
NoEpisode_Named(videoFile) ==
    [VideoFile |-> videoFile, EpisodeNum |-> "", ReleaseName |-> videoFile.Name,
     NFOFile |-> NoPath]

NoEpisode(videoFile) ==
    [VideoFile |-> videoFile, EpisodeNum |-> "", ReleaseName |-> "", NFOFile |-> NoPath]

\* the general NFO for every unit without an NFO of its own
PickNfo_AnyEpisode(own, generalNFO, useGeneral) ==
    IF own # NoPath THEN own ELSE generalNFO

\* the NFO of a unit: its own, else the general one when UseGeneral holds
PickNfo(own, generalNFO, useGeneral) ==
    IF own # NoPath THEN own
    ELSE IF useGeneral /\ generalNFO # NoPath THEN generalNFO
    ELSE NoPath

\* the path <dir>/<fileName>.nfo without the stat
SiblingNfo_Unchecked(fsys, dir, fileName) == Join(dir, fileName \o ".nfo")

\* <dir>/<fileName>.nfo when stat finds it
SiblingNfo(fsys, dir, fileName) ==
    IF StatOK(fsys, Join(dir, fileName \o ".nfo"))
    THEN Join(dir, fileName \o ".nfo") ELSE NoPath

\* the branch for a video in the main directory that tries the date first
ExtractFromFileName_DateFirst(fsys, videoFile, seasonPackName, generalNFO) ==
    LET fileName == TrimSuffix(videoFile.Name, Ext(videoFile.Name))
        ep == FindEpisode(fileName)
        date == FindIsoDate(fileName)
    IN  IF date.found
        THEN [VideoFile |-> videoFile,
              EpisodeNum |-> date.date,
              ReleaseName |-> fileName,
              NFOFile |-> PickNfo(SiblingNfo(fsys, videoFile.Dir, fileName),
                                  generalNFO, TRUE)]
        ELSE IF ep.found
        THEN LET num == "E" \o ep.episode
                 asIs == /\ isValidEpisodeFileName(fileName, seasonPackName)
                         /\ ~isCompletelyLowercase(fileName)
                 own == IF asIs THEN SiblingNfo(fsys, videoFile.Dir, fileName)
                        ELSE NoPath
             IN  [VideoFile |-> videoFile,
                  EpisodeNum |-> num,
                  ReleaseName |-> IF asIs THEN fileName
                                  ELSE generateEpisodeReleaseName(seasonPackName, num),
                  NFOFile |-> PickNfo(own, generalNFO, num = "E01")]
        ELSE NoEpisode(videoFile)

\* the branch of extractEpisodeInfo for a video in the main directory
ExtractFromFileName(fsys, videoFile, seasonPackName, generalNFO) ==
    LET fileName == TrimSuffix(videoFile.Name, Ext(videoFile.Name))
        ep == FindEpisode(fileName)
        date == FindIsoDate(fileName)
    IN  IF ep.found
        THEN LET num == "E" \o ep.episode
                 asIs == /\ isValidEpisodeFileName(fileName, seasonPackName)
                         /\ ~isCompletelyLowercase(fileName)
                 own == IF asIs THEN SiblingNfo(fsys, videoFile.Dir, fileName)
                        ELSE NoPath
             IN  [VideoFile |-> videoFile,
                  EpisodeNum |-> num,
                  ReleaseName |-> IF asIs THEN fileName
                                  ELSE generateEpisodeReleaseName(seasonPackName, num),
                  NFOFile |-> PickNfo(own, generalNFO, num = "E01")]
        ELSE IF date.found
        THEN [VideoFile |-> videoFile,
              EpisodeNum |-> date.date,
              ReleaseName |-> fileName,
              NFOFile |-> PickNfo(SiblingNfo(fsys, videoFile.Dir, fileName),
                                  generalNFO, TRUE)]
        ELSE NoEpisode(videoFile)

\* the branch of extractEpisodeInfo for a video in a subdirectory
ExtractFromDirName(fsys, videoFile, seasonPackName, generalNFO) ==
    LET parentDir == Base(videoFile.Dir)
        ep == FindEpisode(parentDir)
        date == FindIsoDate(parentDir)
        own == findNFOInDirectory(fsys, videoFile.Dir)
    IN  IF ep.found
        THEN LET num == "E" \o ep.episode
             IN  IF /\ isValidEpisodeFileName(parentDir, seasonPackName)
                    /\ isCompletelyLowercase(parentDir)
                 THEN [NoEpisode(videoFile) EXCEPT !.EpisodeNum = num]
                 ELSE [VideoFile |-> videoFile,
                       EpisodeNum |-> num,
                       ReleaseName |-> parentDir,
                       NFOFile |-> PickNfo(own, generalNFO, num = "E01")]
        ELSE IF date.found
        THEN [VideoFile |-> videoFile,
              EpisodeNum |-> date.date,
              ReleaseName |-> parentDir,
              NFOFile |-> PickNfo(own, generalNFO, TRUE)]
        ELSE NoEpisode(videoFile)

extractEpisodeInfo(fsys, videoFile, seasonPackName, generalNFO) ==
    IF EqualFold(Base(videoFile.Dir), seasonPackName)
    THEN ExtractFromFileName(fsys, videoFile, seasonPackName, generalNFO)
    ELSE ExtractFromDirName(fsys, videoFile, seasonPackName, generalNFO)

---------------------------------------------------------------------------
(* Per-episode file lists.                                                 *)

\* (?i)(E\d{2,4}) matched at position i
BareEpisodeAt(s, i) == IsCI(s, i, "e") /\ DigitsAt(s, i + 1, 2)

\* (?i)S\d{2,4}(E\d{2,4})|(?i)(E\d{2,4}): the group of the leftmost match,
\* upper-cased; "" without a match
extractEpisodeNumber(fileName) ==
    LET starts == {i \in 1..Len(fileName) :
                      EpisodeHead(fileName, i) \/ BareEpisodeAt(fileName, i)}
    IN  IF starts = {} THEN ""
        ELSE LET i == CHOOSE a \in starts : \A b \in starts : a <= b
                 e == IF EpisodeHead(fileName, i)
                      THEN i + 1 + (CHOOSE k \in 2..4 : EpisodeAt(fileName, i, k))
                      ELSE i
             IN  "E" \o SubSeq(fileName, e + 1, e + GreedyDigits(fileName, e + 1))

isRelatedFileByEpisode(fileName, episodeNum) ==
    EqualFold(extractEpisodeNumber(fileName), episodeNum)

findRelatedFiles(fsys, dir, videoBaseName, videoPath) ==
    LET episodeNum == extractEpisodeNumber(videoBaseName)
        video == <<FileListEntry(dir, NodeAt(fsys, videoPath))>>
        listing == ReadDir(fsys, dir)
        IsRelated(n) ==
            /\ ~n.dir
            /\ Base(n.path) # Base(videoPath)
            /\ isRelatedFileByEpisode(
                   TrimSuffix(Base(n.path), Ext(Base(n.path))), episodeNum)
            /\ n.ok
        related == SelectSeq(listing.entries, IsRelated)
    IN  IF ~StatOK(fsys, videoPath) THEN [entries |-> <<>>, err |-> TRUE]
        ELSE IF episodeNum = "" THEN [entries |-> video, err |-> FALSE]
        ELSE IF listing.err THEN [entries |-> video, err |-> TRUE]
        ELSE [entries |-> video \o [i \in 1..Len(related) |->
                                       FileListEntry(dir, related[i])],
              err |-> FALSE]

createEpisodeFileList(fsys, episodeInfo) ==
    LET video == episodeInfo.VideoFile
        seasonPackDir == Dir(video.Dir)
        all == findAllVideoFiles(fsys, seasonPackDir)
        InSameDir(vf) == vf.Dir = video.Dir
        mainDirVideoCount == Len(SelectSeq(all.videoFiles, InSameDir))
        related == findRelatedFiles(fsys, video.Dir,
                                    TrimSuffix(video.Name, Ext(video.Name)),
                                    video.Path)
    IN  IF all.err THEN [entries |-> <<>>, err |-> TRUE]
        ELSE IF mainDirVideoCount = 0 THEN createFileList(fsys, video.Dir)
        ELSE IF mainDirVideoCount > 1
             THEN IF related.err THEN [entries |-> <<>>, err |-> TRUE]
                  ELSE related
        ELSE createFileList(fsys, video.Dir)

---------------------------------------------------------------------------
(* The single-release helpers of main.                                     *)

\* \b0*1\b matched at position i: zeros, then 1, as a whole word
RECURSIVE TrackAt(_, _)
TrackAt(s, i) ==
    IF At(s, i) = "0" THEN TrackAt(s, i + 1)
    ELSE At(s, i) = "1" /\ WordBoundary(s, i + 1)

HasTrackOne(s) == \E i \in 1..Len(s) : WordBoundary(s, i) /\ TrackAt(s, i)

\* the first audio file named as track 1, else the first audio file; the
\* error of the walk is dropped when a track 1 ended it
findFirstAudioFile(fsys, dir) ==
    LET w == WalkDir(fsys, dir, NoInfo)
        IsAudio(n) == isAudioExtension(ToLower(Ext(Base(n.path))))
        IsFirst(n) ==
            IsAudio(n) /\ HasTrackOne(TrimSuffix(Base(n.path), Ext(Base(n.path))))
        audio == SelectSeq(w.files, IsAudio)
        first == SelectSeq(w.files, IsFirst)
    IN  IF first # <<>> THEN [file |-> first[1].path, err |-> FALSE]
        ELSE IF audio # <<>> THEN [file |-> audio[1].path, err |-> w.err]
        ELSE [file |-> NoPath, err |-> w.err]

\* the first .nfo of the walk; NoPath stands for the error "no NFO file found"
findNFOFile(fsys, dir) ==
    LET w == WalkDir(fsys, dir, NoInfo)
        IsNfo(n) == ToLower(Ext(Base(n.path))) = ".nfo"
        found == SelectSeq(w.files, IsNfo)
    IN  IF found = <<>> THEN NoPath ELSE found[1].path

\* the media file main works on: the biggest video or image, else an audio file
MediaFile(fsys, dir) ==
    LET video == findBiggestFile(fsys, dir)
        audio == findFirstAudioFile(fsys, dir)
    IN  IF ~video.err /\ video.file # NoPath THEN video.file
        ELSE IF ~audio.err /\ audio.file # NoPath THEN audio.file
        ELSE NoPath

---------------------------------------------------------------------------
(* Configuration, hashing and the uploads.                                 *)

qbtCategory == "tv"

\* a match of the category as written, letter case included
isCategoryExcluded_CaseSensitive(cfg, category) ==
    category \in cfg.ExcludedCategories

isCategoryExcluded(cfg, category) ==
    \E excluded \in cfg.ExcludedCategories : EqualFold(category, excluded)

\* initializeMediaInfo: the binary of the cfgured path is found and runs
initializeMediaInfo(cfg) == cfg.MediaInfoPath # ""

\* the size limit that MaxHashFileSize "limit" parses to
maxSizeBytes == 25

shouldCalculateHash(cfg, fsys, filePath) ==
    IF cfg.MaxHashFileSize = "" THEN [hash |-> TRUE, err |-> FALSE]
    ELSE IF cfg.MaxHashFileSize = "0" THEN [hash |-> FALSE, err |-> FALSE]
    ELSE IF ~StatOK(fsys, filePath) THEN [hash |-> FALSE, err |-> TRUE]
    ELSE [hash |-> NodeAt(fsys, filePath).size <= maxSizeBytes, err |-> FALSE]

Upload(i, unit, type, hash, failed) ==
    [idx |-> i, unit |-> unit, type |-> type, hash |-> hash, ok |-> ~failed]

\* the MediaInfo step of an upload: sent only when there is MediaInfo JSON
MediaInfoStep(i, unit, hash, hasJSON, down) ==
    IF hasJSON
    THEN [sent |-> <<Upload(i, unit, "MediaInfo", hash, "upload_mediainfo" \in down)>>,
          errors |-> IF "upload_mediainfo" \in down THEN 1 ELSE 0]
    ELSE [sent |-> <<>>, errors |-> 0]

\* the NFO step: the file is read, then sent
NfoStep(i, unit, hash, nfoFile, down) ==
    IF nfoFile = NoPath THEN [sent |-> <<>>, errors |-> 0]
    ELSE IF "read_nfo" \in down THEN [sent |-> <<>>, errors |-> 1]
    ELSE [sent |-> <<Upload(i, unit, "NFO", hash, "upload_nfo" \in down)>>,
          errors |-> IF "upload_nfo" \in down THEN 1 ELSE 0]

\* a file list sent although its construction failed
FileListStep_SendsOnError(i, unit, list, down) ==
    IF Len(list.entries) > 0 \/ list.err
    THEN [sent |-> <<Upload(i, unit, "FileList", FALSE, "upload_filelist" \in down)>>,
          errors |-> IF "upload_filelist" \in down \/ list.err THEN 1 ELSE 0]
    ELSE [sent |-> <<>>, errors |-> 0]

\* the file-list step: an error of the construction is recorded, a list
\* with entries is sent
FileListStep(i, unit, list, down) ==
    IF list.err THEN [sent |-> <<>>, errors |-> 1]
    ELSE IF Len(list.entries) > 0
    THEN [sent |-> <<Upload(i, unit, "FileList", FALSE, "upload_filelist" \in down)>>,
          errors |-> IF "upload_filelist" \in down THEN 1 ELSE 0]
    ELSE [sent |-> <<>>, errors |-> 0]

\* every failure reported as total, whatever succeeded
UploadResult_AlwaysTotal(mi, nfo, list) ==
    LET sent == mi.sent \o nfo.sent \o list.sent
        errors == mi.errors + nfo.errors + list.errors
    IN  [sent |-> sent,
         result |-> IF errors = 0 THEN "nil" ELSE "total_failure"]

\* the error an upload function returns after its three steps
UploadResult(mi, nfo, list) ==
    LET sent == mi.sent \o nfo.sent \o list.sent
        errors == mi.errors + nfo.errors + list.errors
        IsOk(u) == u.ok
        successCount == Len(SelectSeq(sent, IsOk))
    IN  [sent |-> sent,
         result |-> IF errors = 0 THEN "nil"
                    ELSE IF successCount > 0 THEN "partial_failure"
                    ELSE "total_failure"]

uploadToCrowdNFO(fsys, releaseName, hash, dir, hasJSON, nfoFile, down) ==
    UploadResult(MediaInfoStep(0, releaseName, hash, hasJSON, down),
                 NfoStep(0, releaseName, hash, nfoFile, down),
                 FileListStep(0, releaseName, createFileList(fsys, dir), down))

uploadEpisodeToCrowdNFO(fsys, i, episodeInfo, hash, hasJSON, down) ==
    UploadResult(MediaInfoStep(i, episodeInfo.ReleaseName, hash, hasJSON, down),
                 NfoStep(i, episodeInfo.ReleaseName, hash, episodeInfo.NFOFile, down),
                 FileListStep(i, episodeInfo.ReleaseName,
                              createEpisodeFileList(fsys, episodeInfo), down))

\* every unit is kept, with or without a release name
Episodes_KeepsRejected(fsys, dir, seasonPackName) ==
    LET videoFiles == findAllVideoFiles(fsys, dir).videoFiles
        generalNFO == findGeneralNFO(fsys, dir)
    IN  [i \in 1..Len(videoFiles) |->
            extractEpisodeInfo(fsys, videoFiles[i], seasonPackName, generalNFO)]

\* the episodes processSeasonPack keeps: the units with a release name
Episodes(fsys, dir, seasonPackName) ==
    LET videoFiles == findAllVideoFiles(fsys, dir).videoFiles
        generalNFO == findGeneralNFO(fsys, dir)
        units == [i \in 1..Len(videoFiles) |->
                     extractEpisodeInfo(fsys, videoFiles[i], seasonPackName, generalNFO)]
        IsValid(e) == e.ReleaseName # ""
    IN  SelectSeq(units, IsValid)

\* the steps of one episode that the environment can fail
EpisodeFailurePoints(cfg, fsys, episodeInfo) ==
    LET sh == shouldCalculateHash(cfg, fsys, episodeInfo.VideoFile.Path)
        list == createEpisodeFileList(fsys, episodeInfo)
    IN  (IF sh.hash THEN {"hash"} ELSE {})
        \cup (IF initializeMediaInfo(cfg)
              THEN {"mediainfo", "upload_mediainfo"} ELSE {})
        \cup (IF episodeInfo.NFOFile # NoPath THEN {"read_nfo", "upload_nfo"} ELSE {})
        \cup (IF ~list.err /\ Len(list.entries) > 0 THEN {"upload_filelist"} ELSE {})

\* one iteration of the loop of processSeasonPack, the steps in down failing
ProcessOneEpisode(cfg, fsys, i, episodeInfo, down) ==
    LET sh == shouldCalculateHash(cfg, fsys, episodeInfo.VideoFile.Path)
        hasJSON == initializeMediaInfo(cfg) /\ "mediainfo" \notin down
    IN  IF sh.hash /\ "hash" \in down
        THEN [sent |-> <<>>, result |-> "hash_failed"]
        ELSE uploadEpisodeToCrowdNFO(fsys, i, episodeInfo, sh.hash, hasJSON, down)

\* the loop stops at the first episode that fails
NextEpisode_StopsOnFailure(i, n, result) == IF result = "nil" THEN i + 1 ELSE n + 1

\* the loop goes on to the next episode, whatever the result of this one
NextEpisode(i, n, result) == i + 1

---------------------------------------------------------------------------
(* File systems the checks run on.  A tree is built from a set of files    *)
(* given relative to the release root; the download directory holds the    *)
(* root.  Nodes are put in the order WalkDir visits them: depth first,     *)
(* the entries of a directory sorted by name (os.ReadDir).                 *)

Code(c) == IndexIn(ByteOrder, c)

RECURSIVE NameLess(_, _)
NameLess(a, b) ==
    IF Len(b) = 0 THEN FALSE
    ELSE IF Len(a) = 0 THEN TRUE
    ELSE IF At(a, 1) # At(b, 1) THEN Code(At(a, 1)) < Code(At(b, 1))
    ELSE NameLess(Slice(a, 2, Len(a)), Slice(b, 2, Len(b)))

RECURSIVE PathLess(_, _)
PathLess(p, q) ==
    IF Len(q) = 0 THEN FALSE
    ELSE IF Len(p) = 0 THEN TRUE
    ELSE IF Head(p) # Head(q) THEN NameLess(Head(p), Head(q))
    ELSE PathLess(Tail(p), Tail(q))

RECURSIVE SortNodes(_)
SortNodes(nodes) ==
    IF nodes = {} THEN <<>>
    ELSE LET first == CHOOSE n \in nodes :
                          \A m \in nodes : m = n \/ PathLess(n.path, m.path)
         IN  <<first>> \o SortNodes(nodes \ {first})

DownloadDir == <<"dl">>

DirNode(path, bad) == [path |-> path, dir |-> TRUE, size |-> 0, ok |-> path \notin bad]

FileNode(path, size, bad) ==
    [path |-> path, dir |-> FALSE, size |-> size, ok |-> path \notin bad]

\* the paths of the directories between root and the files
SubDirs(root, files) ==
    UNION { {root \o SubSeq(f.rel, 1, k) : k \in 1..(Len(f.rel) - 1)} : f \in files }

TreePaths(root, files) ==
    {root} \cup SubDirs(root, files) \cup {root \o f.rel : f \in files}

\* the tree of files under root, the ReadDir/Info of the paths in bad failing
MakeFs(root, files, bad) ==
    SortNodes( {DirNode(DownloadDir, {}), DirNode(root, bad)}
               \cup {DirNode(d, bad) : d \in SubDirs(root, files)}
               \cup {FileNode(root \o f.rel, f.size, bad) : f \in files} )

\* the download directory without the release root
MissingRootFs == <<DirNode(DownloadDir, {})>>

SubsetsUpTo(S, n) == {T \in SUBSET S : Cardinality(T) <= n}

F(rel, size) == [rel |-> rel, size |-> size]

MaxFiles == 4

MaxFaults == 1

\* the files a scanned tree is drawn from
ScanPool ==
    { F(<<"Show.S01E01.mkv">>, 30), F(<<"Show.S01E02.mkv">>, 30),
      F(<<"Show.S01E03.MP4">>, 20), F(<<"Show.S01E01.nfo">>, 1),
      F(<<"Show.S01E01.mp3">>, 40), F(<<"Sub", "Show.S01E04.avi">>, 10),
      F(<<"disc.iso">>, 30), F(<<"empty.mkv">>, 0) }

ScanRoot == <<"dl", "Show.S01">>

ScanFileSystems ==
    {MissingRootFs} \cup
    { MakeFs(ScanRoot, files, bad) :
        files \in SubsetsUpTo(ScanPool, MaxFiles),
        bad \in SubsetsUpTo(TreePaths(ScanRoot, ScanPool), MaxFaults) }

---------------------------------------------------------------------------
(* Release names for the checks of pack detection: every concatenation of  *)
(* at most MaxTokens pieces.                                               *)

MaxTokens == 4

NamePieces ==
    { "S01", "s01", "S2024", "S12345", "E05", "E5", ".", "_" }

RECURSIVE NamesUpTo(_)
NamesUpTo(n) ==
    IF n = 0 THEN { "" }
    ELSE LET shorter == NamesUpTo(n - 1)
         IN  shorter \cup { s \o p : s \in shorter, p \in NamePieces }

DetectNames == NamesUpTo(MaxTokens)

\* trees of two and of three video files for the decision of main
DetectFileSystems ==
    { MakeFs(ScanRoot, files, {}) :
        files \in { {F(<<"a.mkv">>, 1), F(<<"b.mkv">>, 1)},
                    {F(<<"a.mkv">>, 1), F(<<"b.mkv">>, 1), F(<<"c.mkv">>, 1)} } }

NoRes == [kind |-> "none"]

NoConfig == [loaded |-> FALSE]

\* no run of main has started
RunIdle ==
    /\ config = NoConfig
    /\ episodes = <<>>
    /\ idx = 0
    /\ uploads = <<>>
    /\ results = <<>>
    /\ ppCalls = 0
    /\ failures = 0


---------------------------------------------------------------------------
(* SpecDetect: pack detection applied to release names.                    *)

InitDetect ==
    /\ pc = "detect"
    /\ jobName \in DetectNames
    /\ fs \in DetectFileSystems
    /\ finalDir = ScanRoot
    /\ res = NoRes
    /\ RunIdle

CallIsSeasonPack ==
    /\ pc = "detect"
    /\ pc' = "detected"
    /\ res' = [kind |-> "isSeasonPack", pack |-> isSeasonPack(jobName)]
    /\ UNCHANGED <<jobName, fs, finalDir, runVars>>

\* the condition of main that selects the season-pack path
MainDetect ==
    /\ pc \in {"detect", "scan"}
    /\ pc' = "detected"
    /\ res' = [kind |-> "main", 
               pack |-> isSeasonPack(jobName) \/ isSeasonPackFallback(fs, finalDir)]
    /\ UNCHANGED <<jobName, fs, finalDir, runVars>>

NextDetect == CallIsSeasonPack \/ MainDetect

SpecDetect == InitDetect /\ [][NextDetect]_vars

---------------------------------------------------------------------------
(* SpecScan: the directory walks applied to trees with failing entries.    *)

ScanNames == { "Movie.2024.1080p", "Show.S01E05.720p" }

InitScan ==
    /\ pc = "scan"
    /\ jobName \in ScanNames
    /\ fs \in ScanFileSystems
    /\ finalDir = ScanRoot
    /\ res = NoRes
    /\ RunIdle

CallFindAllVideoFiles ==
    /\ pc = "scan"
    /\ pc' = "scanned"
    /\ res' = [kind |-> "findAllVideoFiles"] @@ findAllVideoFiles(fs, finalDir)
    /\ UNCHANGED <<jobName, fs, finalDir, runVars>>

CallCreateFileList ==
    /\ pc = "scan"
    /\ pc' = "scanned"
    /\ res' = [kind |-> "createFileList"] @@ createFileList(fs, finalDir)
    /\ UNCHANGED <<jobName, fs, finalDir, runVars>>

CallFindBiggestFile ==
    /\ pc = "scan"
    /\ pc' = "scanned"
    /\ res' = [kind |-> "findBiggestFile"] @@ findBiggestFile(fs, finalDir)
    /\ UNCHANGED <<jobName, fs, finalDir, runVars>>

NextScan ==
    \/ CallFindAllVideoFiles
    \/ CallCreateFileList
    \/ CallFindBiggestFile
    \/ MainDetect

SpecScan == InitScan /\ [][NextScan]_vars

---------------------------------------------------------------------------
(* Spec: one run of main on a release directory.                           *)

MaxFailures == 1

RunNames == { "Show.Name.S01.1080p", "Movie.2024.1080p" }

EpisodeDir == "Show.Name.S01E04.720p-GRP"

LowerCaseDir == "show.name.s01e05"

\* the files a release directory is drawn from
RunPool ==
    { F(<<"Show.Name.S01E01.mkv">>, 30), F(<<"Show.Name.S01E02.mkv">>, 30),
      F(<<"Show.Name.S01E03.mkv">>, 20), F(<<"Show.Name.S01E01.nfo">>, 1),
      F(<<EpisodeDir, "Show.Name.S01E04.mkv">>, 10) }

\* the paths whose ReadDir or Info can fail
RunFaultPaths(root) ==
    { root, Join(root, EpisodeDir), Join(root, "Show.Name.S01E02.mkv"),
      Join(root, "Show.Name.S01E01.nfo") }

\* a directory with two episodes and two videos that yield no episode: one
\* without a token or date, one in an entirely lower-case subdirectory
RunMixedFiles ==
    { F(<<"Show.Name.S01E01.mkv">>, 30), F(<<"Show.Name.S01E02.mkv">>, 30),
      F(<<"extras.mkv">>, 5), F(<<LowerCaseDir, "x.mkv">>, 10) }

\* a directory with one episode in the pack directory and an episode
\* subdirectory that holds the episode and a sample of it
RunSampleFiles ==
    { F(<<"Show.Name.S01E01.mkv">>, 30),
      F(<<EpisodeDir, "Show.Name.S01E04.mkv">>, 10), F(<<EpisodeDir, "sample.mkv">>, 2) }

RunFileSystems(root) ==
    {MissingRootFs} \cup {MakeFs(root, RunMixedFiles, {})}
    \cup {MakeFs(root, RunSampleFiles, {})} \cup
    { MakeFs(root, files, bad) :
        files \in SUBSET RunPool,
        bad \in SubsetsUpTo(RunFaultPaths(root), MaxFaults) }

Configs ==
    { [loaded |-> TRUE, ExcludedCategories |-> {},
       MediaInfoPath |-> "mediainfo", MaxHashFileSize |-> ""],
      [loaded |-> TRUE, ExcludedCategories |-> {"TV"},
       MediaInfoPath |-> "mediainfo", MaxHashFileSize |-> ""],
      [loaded |-> TRUE, ExcludedCategories |-> {},
       MediaInfoPath |-> "", MaxHashFileSize |-> "0"],
      [loaded |-> TRUE, ExcludedCategories |-> {},
       MediaInfoPath |-> "mediainfo", MaxHashFileSize |-> "limit"] }

\* the answers of UmlautAdaptarr: an error, no change, an original title
UmlautAnswers ==
    { [err |-> TRUE, title |-> ""], [err |-> FALSE, title |-> ""],
      [err |-> FALSE, title |-> "Show.Title.S01.1080p"],
      [err |-> FALSE, title |-> "Movie.Title.2024.1080p"] }

Init ==
    /\ pc = "start"
    /\ jobName \in RunNames
    /\ finalDir = Join(DownloadDir, jobName)
    /\ fs \in RunFileSystems(finalDir)
    /\ res = NoRes
    /\ RunIdle

\* main, lines 104-108: a configuration that does not load is fatal
LoadConfig ==
    /\ pc = "start"
    /\ \E c \in Configs \cup {NoConfig} :
          /\ config' = c
          /\ pc' = IF c.loaded THEN "category" ELSE "fatal"
    /\ UNCHANGED <<jobName, fs, finalDir, res, episodes, idx, uploads, results,
                   ppCalls, failures>>

\* main, lines 110-117
CheckCategory ==
    /\ pc = "category"
    /\ IF isCategoryExcluded(config, qbtCategory)
       THEN /\ ppCalls' = ppCalls + 1
            /\ res' = [kind |-> "exit", path |-> "excluded"]
            /\ pc' = "exit"
       ELSE /\ pc' = "umlaut"
            /\ UNCHANGED <<ppCalls, res>>
    /\ UNCHANGED <<jobName, fs, finalDir, config, episodes, idx, uploads, results,
                   failures>>

\* main, lines 119-134
CheckUmlautadaptarr ==
    /\ pc = "umlaut"
    /\ \E answer \in UmlautAnswers :
          IF answer.err
          THEN /\ ppCalls' = ppCalls + 1
               /\ res' = [kind |-> "exit", path |-> "umlaut"]
               /\ pc' = "exit"
               /\ UNCHANGED jobName
          ELSE /\ jobName' = IF answer.title # "" THEN answer.title ELSE jobName
               /\ res' = [kind |-> "checkUmlautadaptarr", title |-> answer.title]
               /\ pc' = "archive"
               /\ UNCHANGED ppCalls
    /\ UNCHANGED <<fs, finalDir, config, episodes, idx, uploads, results, failures>>

\* filepath.Join(getCurrentDir(), "archive", cleanJobName), from the current
\* directory on
archiveDir(cleanJobName) == <<"archive", cleanJobName>>

\* main, lines 136-140: a failing MkdirAll is fatal
MakeArchiveDir ==
    /\ pc = "archive"
    /\ \E ok \in BOOLEAN :
          /\ res' = [kind |-> "MkdirAll", dir |-> archiveDir(jobName), ok |-> ok]
          /\ pc' = IF ok THEN "detect" ELSE "fatal"
    /\ UNCHANGED <<jobName, fs, finalDir, runVars>>

MainChosePack == pc = "detected" /\ res.kind = "main" /\ res.pack

MainChoseSingle == pc = "detected" /\ res.kind = "main" /\ ~res.pack

Returned(err, why) == [kind |-> "processSeasonPack", err |-> err, why |-> why]

\* processSeasonPack up to its loop, lines 284-326
ProcessSeasonPackStart ==
    /\ MainChosePack
    /\ \E scan \in {findAllVideoFiles(fs, finalDir)} :
          IF ~isSeasonPackFallback(fs, finalDir)
          THEN /\ res' = Returned(FALSE, "single release")
               /\ pc' = "returned"
               /\ UNCHANGED <<episodes, idx>>
          ELSE IF scan.err
          THEN /\ res' = Returned(TRUE, "scan")
               /\ pc' = "returned"
               /\ UNCHANGED <<episodes, idx>>
          ELSE IF Len(scan.videoFiles) = 0
          THEN /\ res' = Returned(FALSE, "no video files")
               /\ pc' = "returned"
               /\ UNCHANGED <<episodes, idx>>
          ELSE \E found \in {Episodes(fs, finalDir, jobName)} :
                  IF Len(found) = 0
                  THEN /\ res' = Returned(FALSE, "no valid episodes")
                       /\ pc' = "returned"
                       /\ UNCHANGED <<episodes, idx>>
                  ELSE /\ episodes' = found
                       /\ idx' = 1
                       /\ pc' = "episode"
                       /\ UNCHANGED res
    /\ UNCHANGED <<jobName, fs, finalDir, config, uploads, results, ppCalls, failures>>

\* one iteration of the loop of processSeasonPack, lines 330-363
ProcessEpisode ==
    /\ pc = "episode"
    /\ idx <= Len(episodes)
    /\ \E down \in SubsetsUpTo(EpisodeFailurePoints(config, fs, episodes[idx]),
                               MaxFailures - failures) :
       \E out \in {ProcessOneEpisode(config, fs, idx, episodes[idx], down)} :
          /\ uploads' = uploads \o out.sent
          /\ results' = Append(results, out.result)
          /\ idx' = NextEpisode(idx, Len(episodes), out.result)
          /\ failures' = failures + Cardinality(down)
    /\ UNCHANGED <<pc, jobName, fs, finalDir, res, config, episodes, ppCalls>>

\* the end of processSeasonPack, lines 365-370
FinishSeasonPack ==
    /\ pc = "episode"
    /\ idx > Len(episodes)
    /\ ppCalls' = ppCalls + 1
    /\ res' = Returned(FALSE, "completed")
    /\ pc' = "returned"
    /\ UNCHANGED <<jobName, fs, finalDir, config, episodes, idx, uploads, results,
                   failures>>

\* main after processSeasonPack, lines 149-154: it logs the result and returns
MainAfterPack ==
    /\ pc = "returned"
    /\ res' = [kind |-> "exit", path |-> "pack", err |-> res.err, why |-> res.why]
    /\ pc' = "exit"
    /\ UNCHANGED <<jobName, fs, finalDir, runVars>>

\* the steps of the single release that the environment can fail
SingleFailurePoints(cfg, fsys, dir, mediaFile, nfoFile) ==
    LET list == createFileList(fsys, dir)
    IN  (IF mediaFile # NoPath /\ shouldCalculateHash(cfg, fsys, mediaFile).hash
         THEN {"hash"} ELSE {})
        \cup (IF mediaFile # NoPath /\ initializeMediaInfo(cfg)
                 /\ ~isHashOnlyFile(Base(mediaFile))
              THEN {"mediainfo", "upload_mediainfo"} ELSE {})
        \cup (IF nfoFile # NoPath THEN {"read_nfo", "upload_nfo"} ELSE {})
        \cup (IF ~list.err /\ Len(list.entries) > 0 THEN {"upload_filelist"} ELSE {})

\* the single release of main from the media file on, the steps in down failing
ProcessOneRelease(cfg, fsys, releaseName, dir, mediaFile, nfoFile, down) ==
    LET hasJSON == /\ mediaFile # NoPath
                   /\ initializeMediaInfo(cfg)
                   /\ ~isHashOnlyFile(Base(mediaFile))
                   /\ "mediainfo" \notin down
        hash == /\ mediaFile # NoPath
                /\ shouldCalculateHash(cfg, fsys, mediaFile).hash
                /\ "hash" \notin down
    IN  uploadToCrowdNFO(fsys, releaseName, hash, dir, hasJSON, nfoFile, down)

\* main for a single release, lines 157-233
ProcessSingle ==
    /\ MainChoseSingle
    /\ \E mediaFile \in {MediaFile(fs, finalDir)}, nfoFile \in {findNFOFile(fs, finalDir)} :
       \E down \in SubsetsUpTo(
                      SingleFailurePoints(config, fs, finalDir, mediaFile, nfoFile),
                      MaxFailures - failures) :
       \E out \in {ProcessOneRelease(config, fs, jobName, finalDir, mediaFile,
                                     nfoFile, down)} :
          /\ uploads' = uploads \o out.sent
          /\ results' = Append(results, out.result)
          /\ failures' = failures + Cardinality(down)
    /\ ppCalls' = ppCalls + 1
    /\ res' = [kind |-> "exit", path |-> "single"]
    /\ pc' = "exit"
    /\ UNCHANGED <<jobName, fs, finalDir, config, episodes, idx>>

Next ==
    \/ LoadConfig
    \/ CheckCategory
    \/ CheckUmlautadaptarr
    \/ MakeArchiveDir
    \/ MainDetect
    \/ ProcessSeasonPackStart
    \/ ProcessEpisode
    \/ FinishSeasonPack
    \/ MainAfterPack
    \/ ProcessSingle

Spec == Init /\ [][Next]_vars

---------------------------------------------------------------------------
(* SpecEpisode: episode identity and the per-episode file list applied to  *)
(* the video files of small pack directories.                              *)

MaxUnitFiles == 3

\* the names of the packs; the pack directory carries the name of the pack
PackNames ==
    { "Show.Name.S01.1080p", "Show.Name.S01.COMPLETE.1080p",
      "Show Name s01 iNCOMPLETE", "Show.Name.1080p" }

BareTokenDir == "s01e03"

DateDir == "Show.Name.2024-02-01"

\* the files a pack directory is drawn from
\* a file name that holds a season/episode token and an ISO date
TokenAndDateFile == "Show.Name.S01E07.2024-03-01.mkv"

UnitPool ==
    { F(<<"Show.Name.S01E01.mkv">>, 30), F(<<"show.name.s01e02.mkv">>, 30),
      F(<<"Show.Name.S01E001.mkv">>, 30), F(<<"Show.Name.S01E01.nfo">>, 1),
      F(<<"Show.Name.S01E02.1080p.nfo">>, 1), F(<<"group.nfo">>, 1),
      F(<<"about.nfo">>, 1),
      F(<<"Show.Name.2024-01-15.mkv">>, 30), F(<<"Show.Name.2024-01-15.srt">>, 1),
      F(<<"Route66.S01E01.mkv">>, 30), F(<<"Route66.S01E02.mkv">>, 30),
      F(<<"extras.mkv">>, 5), F(<<TokenAndDateFile>>, 30),
      F(<<EpisodeDir, "Show.Name.S01E04.mkv">>, 10), F(<<EpisodeDir, "sample.mkv">>, 2),
      F(<<EpisodeDir, "info.nfo">>, 1),
      F(<<LowerCaseDir, "x.mkv">>, 10), F(<<BareTokenDir, "y.mkv">>, 10),
      F(<<DateDir, "z.mkv">>, 10) }

\* the pack of the first name is drawn from the whole pool, the packs of the
\* other names from the videos whose release names depend on the pack name
OtherPackPool ==
    { F(<<"Show.Name.S01E01.mkv">>, 30), F(<<"show.name.s01e02.mkv">>, 30),
      F(<<"Route66.S01E01.mkv">>, 30),
      F(<<LowerCaseDir, "x.mkv">>, 10), F(<<BareTokenDir, "y.mkv">>, 10) }

UnitFileSystems(packName, root) ==
    { MakeFs(root, files, {}) :
        files \in SubsetsUpTo(IF packName = "Show.Name.S01.1080p"
                              THEN UnitPool ELSE OtherPackPool, MaxUnitFiles) }

\* the episode keys handed to generateEpisodeReleaseName
UnitKeys == { "E05", "E1234" }

InitEpisode ==
    /\ pc = "unit"
    /\ jobName \in PackNames
    /\ finalDir = Join(DownloadDir, jobName)
    /\ fs \in UnitFileSystems(jobName, finalDir)
    /\ res = NoRes
    /\ RunIdle

\* processSeasonPack, lines 312-315, for one of the video files
CallExtractEpisodeInfo ==
    /\ pc = "unit"
    /\ \E scan \in {findAllVideoFiles(fs, finalDir)} :
       \E i \in 1..Len(scan.videoFiles) :
          res' = [kind |-> "extractEpisodeInfo",
                  unit |-> extractEpisodeInfo(fs, scan.videoFiles[i], jobName,
                                              findGeneralNFO(fs, finalDir))]
    /\ pc' = "extracted"
    /\ UNCHANGED <<jobName, fs, finalDir, runVars>>

\* uploadEpisodeToCrowdNFO, api_utils.go line 143, for a unit that was kept
CallCreateEpisodeFileList ==
    /\ pc = "extracted"
    /\ res.unit.ReleaseName # ""
    /\ res' = [kind |-> "createEpisodeFileList", unit |-> res.unit,
               list |-> createEpisodeFileList(fs, res.unit)]
    /\ pc' = "listed"
    /\ UNCHANGED <<jobName, fs, finalDir, runVars>>

\* another release beside the pack in the download directory
SiblingDir == Join(DownloadDir, "Other.S01")

\* fsys with the other release added beside the pack, its directory
\* readable or not; everything under the pack's own root is as in fsys
BesideFileSystems(fsys) ==
    { SortNodes({fsys[i] : i \in 1..Len(fsys)}
                \cup {DirNode(SiblingDir, bad),
                      FileNode(Join(SiblingDir, "Other.S01E01.mkv"), 30, bad)}) :
        bad \in {{}, {SiblingDir}} }

\* createEpisodeFileList for the same unit on two file systems that agree
\* on the release root and differ beside it
CallCreateEpisodeFileListBeside ==
    /\ pc = "extracted"
    /\ res.unit.ReleaseName # ""
    /\ \E beside \in BesideFileSystems(fs) :
          res' = [kind |-> "createEpisodeFileList beside", unit |-> res.unit,
                  list |-> createEpisodeFileList(fs, res.unit),
                  beside |-> beside,
                  other |-> createEpisodeFileList(beside, res.unit)]
    /\ pc' = "compared"
    /\ UNCHANGED <<jobName, fs, finalDir, runVars>>

\* extractEpisodeInfo, line 1020, and the key of the name it yields
CallGenerateEpisodeReleaseName ==
    /\ pc = "unit"
    /\ \E key \in UnitKeys :
       \E name \in {generateEpisodeReleaseName(jobName, key)} :
          res' = [kind |-> "generateEpisodeReleaseName", key |-> key,
                  name |-> name, again |-> FindEpisode(name)]
    /\ pc' = "generated"
    /\ UNCHANGED <<jobName, fs, finalDir, runVars>>

NextEpisodeUnit ==
    \/ CallExtractEpisodeInfo
    \/ CallCreateEpisodeFileList
    \/ CallCreateEpisodeFileListBeside
    \/ CallGenerateEpisodeReleaseName

SpecEpisode == InitEpisode /\ [][NextEpisodeUnit]_vars

---------------------------------------------------------------------------
(* The words of a name, for the statements about release names: a word is  *)
(* a maximal run of letters, digits and underscores.                       *)

WordStarts(s) ==
    {i \in 1..Len(s) : IsWordChar(At(s, i)) /\ ~IsWordChar(At(s, i - 1))}

WordEnd(s, i) ==
    CHOOSE j \in i..Len(s) :
        /\ \A k \in i..j : IsWordChar(At(s, k))
        /\ ~IsWordChar(At(s, j + 1))

Words(s) == {SubSeq(s, i, WordEnd(s, i)) : i \in WordStarts(s)}

AllDigits(s) == \A i \in 1..Len(s) : At(s, i) \in Digits

\* S and 2 to 4 digits
IsSeasonWord(w) ==
    /\ Len(w) \in 3..5
    /\ At(w, 1) \in {"S", "s"}
    /\ AllDigits(SubSeq(w, 2, Len(w)))

\* S, 2 to 4 digits, E, 2 to 4 digits
IsEpisodeWord(w) ==
    /\ At(w, 1) \in {"S", "s"}
    /\ \E k \in 2..4 :
         /\ Len(w) \in (k + 4)..(k + 6)
         /\ AllDigits(SubSeq(w, 2, k + 1))
         /\ At(w, k + 2) \in {"E", "e"}
         /\ AllDigits(SubSeq(w, k + 3, Len(w)))

\* S20 and 2 digits
IsYearWord(w) ==
    /\ Len(w) = 5
    /\ At(w, 1) \in {"S", "s"}
    /\ SubSeq(w, 2, 3) = "20"
    /\ AllDigits(SubSeq(w, 4, 5))

HasSeasonWord(s) == \E w \in Words(s) : IsSeasonWord(w)

HasEpisodeWord(s) == \E w \in Words(s) : IsEpisodeWord(w)

HasYearWord(s) == \E w \in Words(s) : IsYearWord(w)

\* the video files of the tree under dir, counted without a walk
VideoExtensions ==
    { ".mkv", ".mp4", ".avi", ".mov", ".wmv", ".flv", ".mpeg", ".mpg", ".webm",
      ".m4v", ".divx", ".xvid" }

VideoNodes(fsys, dir) ==
    {i \in 1..Len(fsys) :
        /\ ~fsys[i].dir
        /\ IsUnder(fsys[i].path, dir)
        /\ ToLower(Ext(Base(fsys[i].path))) \in VideoExtensions}

Range(seq) == {seq[i] : i \in 1..Len(seq)}

IsSeasonPackResult == pc = "detected" /\ res.kind = "isSeasonPack"

IsMainResult == pc = "detected" /\ res.kind = "main"

---------------------------------------------------------------------------
(* C1 as stated: isSeasonPack is true for every name that holds a season   *)
(* token S + 2-4 digits not followed by an episode token, false for        *)
(* S01E05, and the decision of main for S01E05 is the file-count fallback. *)
C1_AsStated ==
    /\ IsSeasonPackResult /\ HasSeasonWord(jobName) => res.pack
    /\ IsSeasonPackResult /\ jobName = "S01E05" => ~res.pack
    /\ IsMainResult /\ jobName = "S01E05"
          => (res.pack <=> Cardinality(VideoNodes(fs, finalDir)) >= 3)

(* C1 amended: isSeasonPack is true for every name that holds a whole-word *)
(* season token and no whole-word SxxExx token anywhere; it is false for   *)
(* every name that holds a whole-word SxxExx token and no whole-word S20xx *)
(* token, and for such a name the decision of main is true exactly when    *)
(* the tree holds 3 or more video files.                                   *)
C1_SeasonTokenIsPack ==
    /\ IsSeasonPackResult /\ HasSeasonWord(jobName) /\ ~HasEpisodeWord(jobName)
          => res.pack
    /\ IsSeasonPackResult /\ HasEpisodeWord(jobName) /\ ~HasYearWord(jobName)
          => ~res.pack
    /\ IsMainResult /\ HasEpisodeWord(jobName) /\ ~HasYearWord(jobName)
          => (res.pack <=> Cardinality(VideoNodes(fs, finalDir)) >= 3)

C1_Witness ==
    /\ IsMainResult
    /\ jobName = "S01.S01E05"
    /\ res.pack

---------------------------------------------------------------------------
(* C2 as stated: isSeasonPack is true for every name that holds S20 and    *)
(* two digits, also when that token is followed by an episode token.       *)
YearThenEpisodeAt(s, i) ==
    /\ WordBoundary(s, i)
    /\ At(s, i) \in {"S", "s"}
    /\ SubSeq(s, i + 1, i + 2) = "20"
    /\ DigitsAt(s, i + 3, 2)
    /\ At(s, i + 5) \in {"E", "e"}
    /\ \E m \in 2..4 : DigitsAt(s, i + 6, m) /\ WordBoundary(s, i + 6 + m)

C2_AsStated ==
    IsSeasonPackResult
    /\ (HasYearWord(jobName)
          \/ \E i \in 1..(Len(jobName) - 7) : YearThenEpisodeAt(jobName, i))
    => res.pack

(* C2 amended: isSeasonPack is true for every name that holds a whole-word *)
(* S20xx token, also when an SxxExx token occurs elsewhere in the name; a  *)
(* token S20xx that is directly followed by an episode token (S2024E05) is *)
(* an episode token and, without a whole-word S20xx, the result is false.  *)
C2_YearTokenIsPack ==
    /\ IsSeasonPackResult /\ HasYearWord(jobName) => res.pack
    /\ IsSeasonPackResult /\ ~HasYearWord(jobName)
          /\ (\E i \in 1..(Len(jobName) - 7) : YearThenEpisodeAt(jobName, i))
          => ~res.pack

C2_Witness ==
    /\ IsSeasonPackResult
    /\ HasYearWord(jobName)
    /\ HasEpisodeWord(jobName)
    /\ res.pack

---------------------------------------------------------------------------
RootReadable(fsys, root) == Exists(fsys, root) /\ NodeAt(fsys, root).ok

\* the video files under dir that a listing can reach: every directory above
\* them can be read
VisibleVideoNodes(fsys, dir) ==
    {i \in VideoNodes(fsys, dir) :
        \A k \in Len(dir)..(Len(fsys[i].path) - 1) :
            NodeAt(fsys, SubSeq(fsys[i].path, 1, k)).ok}

(* C3 as stated: for a name that matches no pack pattern and a readable    *)
(* root the decision of main is false when the tree holds exactly 2 video  *)
(* files and true when it holds 3 or more anywhere in the tree; audio      *)
(* files do not count.                                                     *)
C3_AsStated ==
    IsMainResult /\ ~isSeasonPack(jobName) /\ RootReadable(fs, finalDir)
    => /\ Cardinality(VisibleVideoNodes(fs, finalDir)) = 2 => ~res.pack
       /\ Cardinality(VisibleVideoNodes(fs, finalDir)) >= 3 => res.pack

\* the part of C3 the code keeps: what the decision is when the walk meets no error
C3_WhenWalkSucceeds ==
    IsMainResult /\ ~isSeasonPack(jobName) /\ ~findAllVideoFiles(fs, finalDir).err
    => (res.pack <=> Cardinality(VideoNodes(fs, finalDir)) >= 3)

---------------------------------------------------------------------------
(* The example of the specification: the pack Show.Name.S01.1080p with two *)
(* videos and one NFO in the same folder.                                  *)

ExampleName == "Show.Name.S01.1080p"

ExampleRoot == Join(DownloadDir, ExampleName)

ExampleFiles ==
    { F(<<"Show.Name.S01E01.mkv">>, 30), F(<<"Show.Name.S01E02.mkv">>, 30),
      F(<<"Show.Name.S01E01.nfo">>, 1) }

ThirdEpisode == F(<<"Show.Name.S01E03.mkv">>, 20)

\* processSeasonPack has run on the example under its own name
OnExample(files) ==
    /\ pc \in {"episode", "returned"}
    /\ jobName = ExampleName
    /\ fs = MakeFs(ExampleRoot, files, {})

UnitIs(e, key, name, nfo) ==
    e.EpisodeNum = key /\ e.ReleaseName = name /\ e.NFOFile = nfo

ExampleUnits(units) ==
    /\ UnitIs(units[1], "E01", "Show.Name.S01E01",
              Join(ExampleRoot, "Show.Name.S01E01.nfo"))
    /\ UnitIs(units[2], "E02", "Show.Name.S01E02", NoPath)

(* C4 as stated: processing the example produces exactly two episode       *)
(* units, E01 and E02, named as the base names of the videos, E01 with the *)
(* sibling .nfo and E02 without NFO.                                       *)
C4_AsStated ==
    OnExample(ExampleFiles) => Len(episodes) = 2 /\ ExampleUnits(episodes)

(* C4 amended: on the example itself processSeasonPack makes no units (two *)
(* videos are fewer than three); with a third video Show.Name.S01E03.mkv   *)
(* in the folder it makes exactly three units, E01 and E02 as stated (E01  *)
(* with the sibling .nfo, E02 without NFO) and E03 without NFO.            *)
C4_ExampleWithThirdEpisode ==
    /\ OnExample(ExampleFiles)
          => pc = "returned" /\ episodes = <<>> /\ res.why = "single release"
    /\ OnExample(ExampleFiles \cup {ThirdEpisode})
          => /\ Len(episodes) = 3
             /\ ExampleUnits(episodes)
             /\ UnitIs(episodes[3], "E03", "Show.Name.S01E03", NoPath)

C4_Witness ==
    /\ OnExample(ExampleFiles \cup {ThirdEpisode})
    /\ pc = "episode"
    /\ Len(episodes) = 3
    /\ episodes[1].NFOFile # NoPath

---------------------------------------------------------------------------
\* the scan of the release directory finds fewer than three videos
FewVideos ==
    LET scan == findAllVideoFiles(fs, finalDir)
    IN  ~scan.err /\ Len(scan.videoFiles) < MinVideoFiles

\* main has gone past the category and UmlautAdaptarr checks and has ended
ProcessedAndEnded == pc = "exit" /\ res.path \in {"pack", "single"}

(* C5 as stated: when the name matches the pack pattern and fewer than 3   *)
(* videos are found, the run performs the single-release processing.       *)
C5_AsStated ==
    ProcessedAndEnded /\ isSeasonPack(jobName) /\ FewVideos
    => res.path = "single" /\ Len(results) = 1

---------------------------------------------------------------------------
(* C6 as stated: every run that loaded its configuration and has ended has *)
(* called executePostProcessing.                                           *)
C6_AsStated == pc = "exit" /\ config.loaded => ppCalls >= 1

---------------------------------------------------------------------------
\* the episodes that have been processed so far
Processed == 1..(IF Len(results) < Len(episodes) THEN Len(results) ELSE Len(episodes))

UploadsOf(j) == {u \in Range(uploads) : u.idx = j}

\* uploadEpisodeToCrowdNFO ran for episode j: its hashing did not fail
UploadRan(j) == results[j] # "hash_failed"

(* C7: a failure in one episode never keeps a later episode from being     *)
(* processed: the loop handles the episodes one after the other whatever   *)
(* their results, a completed pack has a result for every episode, and     *)
(* every episode whose own hashing and file list did not fail has had its  *)
(* file list sent.                                                         *)
C7_FailuresAreIsolated ==
    /\ pc = "episode" => Len(results) = idx - 1 /\ idx <= Len(episodes) + 1
    /\ pc = "returned" /\ res.why = "completed" => Len(results) = Len(episodes)
    /\ pc \in {"episode", "returned"}
          => \A j \in Processed :
                UploadRan(j) /\ ~createEpisodeFileList(fs, episodes[j]).err
                   => \E u \in UploadsOf(j) : u.type = "FileList"

C7_Witness ==
    /\ pc = "returned"
    /\ res.why = "completed"
    /\ Len(results) >= 3
    /\ results[1] # "nil"
    /\ results[3] = "nil"
    /\ \E u \in UploadsOf(3) : u.type = "FileList" /\ u.ok

---------------------------------------------------------------------------
\* createEpisodeFileList was called for episode j and failed
FileListFailed(j) == UploadRan(j) /\ createEpisodeFileList(fs, episodes[j]).err

(* C8 as stated: when createEpisodeFileList fails for an episode, nothing  *)
(* is uploaded for that episode.                                           *)
C8_AsStated ==
    pc \in {"episode", "returned"}
    => \A j \in Processed : FileListFailed(j) => UploadsOf(j) = {}

(* C8 amended: when createEpisodeFileList fails for an episode, the error  *)
(* is recorded (the upload of the episode returns a partial or a total     *)
(* failure, the episode does not count as successful) and no file list is  *)
(* uploaded for it; its MediaInfo and NFO, which are sent before the file  *)
(* list is computed, are uploaded all the same.                            *)
C8_FileListErrorRecorded ==
    pc \in {"episode", "returned"}
    => \A j \in Processed :
          FileListFailed(j)
          => /\ results[j] \in {"partial_failure", "total_failure"}
             /\ \A u \in UploadsOf(j) : u.type \in {"MediaInfo", "NFO"}

C8_Witness ==
    /\ pc = "returned"
    /\ \E j \in Processed :
          /\ FileListFailed(j)
          /\ results[j] = "partial_failure"
          /\ \E u \in UploadsOf(j) : u.type = "MediaInfo" /\ u.ok

---------------------------------------------------------------------------
(* C9 as stated: an error on one entry of a walk (an unreadable entry, a   *)
(* failed stat of a file) is not fatal: with the root readable,            *)
(* findAllVideoFiles, createFileList and findBiggestFile return no error   *)
(* and still return every other readable file.                             *)

\* the files under root that can be read: every directory above them can be
\* listed and their own stat succeeds
ReadableFiles(fsys, root) ==
    { n \in {fsys[i] : i \in 1..Len(fsys)} :
        /\ ~n.dir
        /\ n.ok
        /\ IsUnder(n.path, root)
        /\ \A k \in Len(root)..(Len(n.path) - 1) :
              NodeAt(fsys, SubSeq(n.path, 1, k)).ok }

C9_AsStated ==
    pc = "scanned" /\ RootReadable(fs, finalDir)
    => /\ ~res.err
       /\ res.kind = "findAllVideoFiles"
            => \A n \in ReadableFiles(fs, finalDir) :
                 IsVideoName(Base(n.path)) => VideoFile(n) \in Range(res.videoFiles)
       /\ res.kind = "createFileList"
            => \A n \in ReadableFiles(fs, finalDir) :
                 FileListEntry(finalDir, n) \in Range(res.entries)
       /\ res.kind = "findBiggestFile"
            => \A n \in ReadableFiles(fs, finalDir) :
                 IsBigCandidate(n) /\ n.size > 0 => res.file # <<>>

---------------------------------------------------------------------------
(* C10 as stated: when the release root is missing or cannot be read,      *)
(* processSeasonPack returns an error instead of reporting too few videos  *)
(* or success.                                                             *)
C10_AsStated ==
    pc = "returned" /\ ~RootReadable(fs, finalDir) => res.err

---------------------------------------------------------------------------
(* Episode units and their file lists, for the statements about            *)
(* SpecEpisode.                                                            *)

FileNodes(fsys) == {n \in Range(fsys) : ~n.dir}

\* the name of a file without its extension
NameOf(n) == TrimSuffix(Base(n.path), Ext(Base(n.path)))

\* the episode key of a name by the patterns of identity extraction: E and
\* the episode digits of the season/episode token, else the ISO date, else ""
FileKey(name) ==
    IF FindEpisode(name).found THEN "E" \o FindEpisode(name).episode
    ELSE IF FindIsoDate(name).found THEN FindIsoDate(name).date
    ELSE ""

IsUnitResult == pc = "extracted" /\ res.kind = "extractEpisodeInfo"

IsListResult == pc = "listed" /\ res.kind = "createEpisodeFileList"

\* the video of the unit lies directly in the directory of the pack
InPackDir(unit) == EqualFold(Base(unit.VideoFile.Dir), jobName)

\* the video files directly in dir
VideosIn(fsys, dir) ==
    {n \in FileNodes(fsys) : Dir(n.path) = dir /\ IsVideoName(Base(n.path))}

\* shared-directory layout: the video lies in the pack directory beside
\* at least one more video
SharedLayout(fsys, unit) ==
    InPackDir(unit) /\ Cardinality(VideosIn(fsys, unit.VideoFile.Dir)) > 1

\* the files of dir, at any depth, that the list names
ListedFiles(fsys, dir, list) ==
    {n \in FileNodes(fsys) :
        IsUnder(n.path, dir) /\ FileListEntry(dir, n) \in Range(list.entries)}

(* C11 as stated: in shared-directory layout the file list of an episode   *)
(* holds no file whose episode key differs from the key of the episode; in *)
(* per-episode-subdirectory layout it holds every file under the           *)
(* subdirectory of the video, a second video and files without an episode  *)
(* token included.                                                         *)
C11_AsStated ==
    IsListResult =>
        LET unit == res.unit
            dir == unit.VideoFile.Dir
        IN  /\ SharedLayout(fs, unit) =>
                 \A n \in ListedFiles(fs, dir, res.list) :
                    FileKey(NameOf(n)) # ""
                        => EqualFold(FileKey(NameOf(n)), unit.EpisodeNum)
            /\ ~InPackDir(unit) =>
                 \A n \in FileNodes(fs) :
                    IsUnder(n.path, dir) => n \in ListedFiles(fs, dir, res.list)

---------------------------------------------------------------------------
\* the files directly in dir, the video apart, whose episode key is key
SiblingsOfKey(fsys, dir, videoPath, key) ==
    {n \in FileNodes(fsys) :
        /\ Dir(n.path) = dir
        /\ n.path # videoPath
        /\ FileKey(NameOf(n)) # ""
        /\ EqualFold(FileKey(NameOf(n)), key)}

(* C12 as stated: in shared-directory layout the file list is the video    *)
(* itself, first and exactly once, followed by exactly the other files     *)
(* directly in the directory whose episode key (season/episode token or    *)
(* ISO date) equals the key of the episode, whatever the case of the       *)
(* letters; this holds for date-keyed episodes too.                        *)
C12_AsStated ==
    IsListResult /\ SharedLayout(fs, res.unit) =>
        LET unit == res.unit
            dir == unit.VideoFile.Dir
            video == FileListEntry(dir, NodeAt(fs, unit.VideoFile.Path))
            entries == res.list.entries
        IN  /\ ~res.list.err
            /\ Len(entries) >= 1
            /\ entries[1] = video
            /\ \A i \in 2..Len(entries) : entries[i] # video
            /\ {entries[i] : i \in 2..Len(entries)}
                 = {FileListEntry(dir, n) :
                      n \in SiblingsOfKey(fs, dir, unit.VideoFile.Path, unit.EpisodeNum)}

---------------------------------------------------------------------------
IsGenerateResult == pc = "generated" /\ res.kind = "generateEpisodeReleaseName"

(* C13 as stated: the key of an episode does not depend on the case of the *)
(* letters of the token, and for every pack name and every key, the key    *)
(* extracted from the release name that generateEpisodeReleaseName         *)
(* synthesizes is that same key.                                           *)
C13_AsStated ==
    /\ IsUnitResult /\ FileKey(res.unit.VideoFile.Name) # ""
         => FileKey(ToLower(res.unit.VideoFile.Name))
              = FileKey(ToUpper(res.unit.VideoFile.Name))
    /\ IsGenerateResult
         => /\ res.again.found
            /\ "E" \o res.again.episode = res.key
            /\ FileKey(ToLower(res.name)) = res.key

---------------------------------------------------------------------------
HasUpper(s) == \E i \in 1..Len(s) : At(s, i) \in Uppers

Least(S) == CHOOSE a \in S : \A b \in S : a <= b

\* the positions of the whole-word season tokens Sxx of a pack name
SeasonTokenStarts(s) == {i \in 1..Len(s) : SeasonTokenAt(s, i)}

\* the text before the Sxx token of the pack name and the text before the
\* SxxExx token of the file name are equal once lower-cased and without
\* dots and spaces
PrefixesAgree(fileName, packName) ==
    /\ SeasonTokenStarts(packName) # {}
    /\ EpisodeStarts(fileName) # {}
    /\ normalizeString(Slice(packName, 1, Least(SeasonTokenStarts(packName)) - 1))
         = normalizeString(Slice(fileName, 1, Least(EpisodeStarts(fileName)) - 1))

\* the pack name without its marker and with its Sxx token turned into
\* SxxExx, written out for each pack name
SynthesizedName(packName, key) ==
    CASE packName = "Show.Name.S01.1080p" -> "Show.Name.S01" \o key \o ".1080p"
      [] packName = "Show.Name.S01.COMPLETE.1080p" -> "Show.Name.S01" \o key \o "..1080p"
      [] packName = "Show Name s01 iNCOMPLETE" -> "Show Name S01" \o key
      [] packName = "Show.Name.1080p" -> "Show.Name.1080p"

(* C14: for a video in the pack directory whose file name holds a          *)
(* season/episode token, the release name is the file name (without its    *)
(* extension) verbatim when its normalized prefix equals that of the pack  *)
(* name and the file name is not entirely lower-case; otherwise it is the  *)
(* pack name with its COMPLETE/iNCOMPLETE marker removed and its Sxx token *)
(* rewritten to SxxExx with the episode digits of the file name.           *)
C14_ReleaseNameInPackDir ==
    LET fileName == TrimSuffix(res.unit.VideoFile.Name, Ext(res.unit.VideoFile.Name))
    IN  IsUnitResult /\ InPackDir(res.unit) /\ FindEpisode(fileName).found
        => res.unit.ReleaseName =
             IF PrefixesAgree(fileName, jobName) /\ HasUpper(fileName)
             THEN fileName
             ELSE SynthesizedName(jobName, FileKey(fileName))

\* a lower-case file name in a pack with a marker got a synthesized name
C14_Witness ==
    /\ IsUnitResult
    /\ jobName = "Show.Name.S01.COMPLETE.1080p"
    /\ res.unit.VideoFile.Name = "show.name.s01e02.mkv"
    /\ InPackDir(res.unit)
    /\ res.unit.ReleaseName = "Show.Name.S01E02..1080p"

---------------------------------------------------------------------------
\* the name of the directory that holds the video of the unit
UnitDirName(unit) == Base(unit.VideoFile.Dir)

\* the units processSeasonPack keeps hold a unit of this video file
KeptAsEpisode(videoFile) ==
    \E e \in Range(Episodes(fs, finalDir, jobName)) : e.VideoFile = videoFile

(* C15: for a video in a subdirectory whose name holds a season/episode    *)
(* token, has the normalized prefix of the pack name and is entirely       *)
(* lower-case, extractEpisodeInfo returns a unit with an empty release     *)
(* name, and processSeasonPack leaves the unit out of its episodes.        *)
C15_LowerCaseDirRejected ==
    IsUnitResult
    /\ ~InPackDir(res.unit)
    /\ FindEpisode(UnitDirName(res.unit)).found
    /\ PrefixesAgree(UnitDirName(res.unit), jobName)
    /\ ~HasUpper(UnitDirName(res.unit))
    => /\ res.unit.ReleaseName = ""
       /\ ~KeptAsEpisode(res.unit.VideoFile)

\* the video of the lower-case directory of a pack of the same show was rejected
C15_Witness ==
    /\ IsUnitResult
    /\ jobName = "Show.Name.S01.1080p"
    /\ UnitDirName(res.unit) = LowerCaseDir
    /\ res.unit.ReleaseName = ""

---------------------------------------------------------------------------
(* C16 as stated: a video inside a folder named exactly s01e03 within a    *)
(* pack is rejected: extractEpisodeInfo returns an empty release name.     *)
C16_AsStated ==
    IsUnitResult /\ UnitDirName(res.unit) = BareTokenDir
    => res.unit.ReleaseName = ""

(* C16 amended: a folder named exactly s01e03 has nothing before its       *)
(* token, fails the prefix test and is accepted with the release name      *)
(* s01e03 and the key E03; the lower-case folder show.name.s01e05, whose   *)
(* prefix is that of the pack name, is the one that is rejected.           *)
C16_BareTokenDirAccepted ==
    IsUnitResult =>
        /\ UnitDirName(res.unit) = BareTokenDir
             => res.unit.ReleaseName = "s01e03" /\ res.unit.EpisodeNum = "E03"
        /\ UnitDirName(res.unit) = LowerCaseDir /\ SeasonTokenStarts(jobName) # {}
             => res.unit.ReleaseName = ""

\* the video of the folder s01e03 got the name of the folder
C16_Witness ==
    /\ IsUnitResult
    /\ jobName = "Show.Name.S01.1080p"
    /\ res.unit.VideoFile.Name = "y.mkv"
    /\ res.unit.ReleaseName = BareTokenDir

---------------------------------------------------------------------------
\* the name extractEpisodeInfo reads the episode from: the file name without
\* its extension for a video in the pack directory, else the directory name
IdentityName(videoFile) ==
    IF EqualFold(Base(videoFile.Dir), jobName)
    THEN TrimSuffix(videoFile.Name, Ext(videoFile.Name))
    ELSE Base(videoFile.Dir)

\* the video yields no episode: its name holds neither a token nor a date,
\* or it lies in an entirely lower-case subdirectory with the pack's prefix
RejectedCandidate(videoFile) ==
    \/ FileKey(IdentityName(videoFile)) = ""
    \/ /\ ~EqualFold(Base(videoFile.Dir), jobName)
       /\ FindEpisode(IdentityName(videoFile)).found
       /\ PrefixesAgree(IdentityName(videoFile), jobName)
       /\ ~HasUpper(IdentityName(videoFile))

ScannedVideos == Range(findAllVideoFiles(fs, finalDir).videoFiles)

\* the uploads made by uploadEpisodeToCrowdNFO
EpisodeUploads == {u \in Range(uploads) : u.idx >= 1}

(* C17: in the season-pack path every call of uploadEpisodeToCrowdNFO is   *)
(* for a unit with a release name, a video that matched no pattern or was  *)
(* rejected as lower-case causes no upload, and a pack of which no valid   *)
(* episode remains returns without error and without any upload.  The      *)
(* episodes are looked at when the loop starts (they do not change later), *)
(* and every upload of the loop is for one of them.                        *)
C17_NoUploadForRejected ==
    /\ pc = "episode" /\ idx = 1
       => \A e \in Range(episodes) :
             e.ReleaseName # "" /\ ~RejectedCandidate(e.VideoFile)
    /\ \A u \in EpisodeUploads :
          /\ u.unit # ""
          /\ u.idx <= Len(episodes)
          /\ u.unit = episodes[u.idx].ReleaseName
    /\ pc = "returned" /\ isSeasonPackFallback(fs, finalDir)
       /\ (\A v \in ScannedVideos : RejectedCandidate(v))
       => ~res.err /\ uploads = <<>> /\ episodes = <<>>

\* a pack with rejected videos beside valid episodes has been uploaded
C17_Witness ==
    /\ pc = "returned"
    /\ res.why = "completed"
    /\ EpisodeUploads # {}
    /\ \E v \in ScannedVideos : v.Name = "extras.mkv" /\ RejectedCandidate(v)
    /\ \E v \in ScannedVideos : v.Name = "x.mkv" /\ RejectedCandidate(v)

---------------------------------------------------------------------------
\* E followed by 2 to 4 digits
IsTokenKey(key) ==
    Len(key) \in 3..5 /\ At(key, 1) = "E" /\ DigitsAt(key, 2, Len(key) - 1)

\* a yyyy-mm-dd date string
IsDateKey(key) == Len(key) = 10 /\ IsoDateAt(key, 1)

(* C18: every unit that extractEpisodeInfo returns with a release name has *)
(* a non-empty episode key, which is E followed by 2 to 4 digits or a      *)
(* yyyy-mm-dd date.                                                        *)
C18_ValidUnitHasKey ==
    IsUnitResult /\ res.unit.ReleaseName # ""
    => /\ res.unit.EpisodeNum # ""
       /\ IsTokenKey(res.unit.EpisodeNum) \/ IsDateKey(res.unit.EpisodeNum)

\* a unit named after a dated subdirectory carries the date as its key
C18_Witness ==
    /\ IsUnitResult
    /\ res.unit.ReleaseName = DateDir
    /\ res.unit.EpisodeNum = "2024-02-01"

---------------------------------------------------------------------------
\* the .nfo files directly in the pack directory whose names hold no
\* season/episode token
GeneralNfos ==
    {n \in FileNodes(fs) :
        /\ Dir(n.path) = finalDir
        /\ IsNfoName(Base(n.path))
        /\ EpisodeStarts(Base(n.path)) = {}}

\* the first of them in the order of the directory listing
FirstGeneralNfo ==
    IF GeneralNfos = {} THEN NoPath
    ELSE (CHOOSE n \in GeneralNfos :
             \A m \in GeneralNfos : m = n \/ NameLess(Base(n.path), Base(m.path))).path

\* the episode-specific NFO the lookup of the unit finds: beside a video of
\* the pack directory the .nfo named after a file name that is the release
\* name, in a subdirectory its first .nfo
OwnNfo(unit) ==
    LET dir == unit.VideoFile.Dir
        fileName == TrimSuffix(unit.VideoFile.Name, Ext(unit.VideoFile.Name))
        InDir(n) == Dir(n.path) = dir /\ IsNfoName(Base(n.path))
        inDir == SelectSeq(fs, InDir)
    IN  IF InPackDir(unit)
        THEN IF unit.ReleaseName = fileName /\ Exists(fs, Join(dir, fileName \o ".nfo"))
             THEN Join(dir, fileName \o ".nfo") ELSE NoPath
        ELSE IF inDir = <<>> THEN NoPath ELSE inDir[1].path

---------------------------------------------------------------------------
\* the path of <release-name>.nfo beside the video of the unit
ReleaseNfoPath(unit) == Join(unit.VideoFile.Dir, unit.ReleaseName \o ".nfo")

(* C20 as stated: for every accepted unit of a video in the pack           *)
(* directory, when a file named <release-name>.nfo exists beside the video *)
(* it is the NFO of the unit, whether the release name is the file's own   *)
(* name or synthesized from the pack name.                                 *)
C20_AsStated ==
    IsUnitResult /\ InPackDir(res.unit) /\ res.unit.ReleaseName # ""
    /\ Exists(fs, ReleaseNfoPath(res.unit))
    => res.unit.NFOFile = ReleaseNfoPath(res.unit)

---------------------------------------------------------------------------
(* Claims on file lists, the biggest file, identity extraction, upload     *)
(* results and the early exits of main.                                    *)

\* the names between the separators of a slash path
RECURSIVE SplitSlash(_)
SplitSlash(s) ==
    LET slashes == {i \in 1..Len(s) : SubSeq(s, i, i) = "/"}
    IN  IF slashes = {} THEN <<s>>
        ELSE LET i == CHOOSE a \in slashes : \A b \in slashes : a <= b
             IN  <<Slice(s, 1, i - 1)>> \o SplitSlash(Slice(s, i + 1, Len(s)))

\* filepath.Join(base, filepath.FromSlash(rel)): empty and "." names drop out
Resolve(base, rel) ==
    LET Named(c) == c # "" /\ c # "."
    IN  base \o SelectSeq(SplitSlash(rel), Named)

(* C21: every entry of the file list of an episode, built by               *)
(* createFileList or by findRelatedFiles, has a path relative to the       *)
(* directory of the video (no leading separator, no step upwards, no       *)
(* backslash) that joined to this directory is the path of a file under    *)
(* it, and the size of the entry is the size of that file.                 *)
C21_EntriesResolve ==
    IsListResult =>
        LET base == res.unit.VideoFile.Dir
        IN  \A i \in 1..Len(res.list.entries) :
                LET e == res.list.entries[i]
                IN  /\ At(e.FilePath, 1) # "/"
                    /\ ".." \notin Range(SplitSlash(e.FilePath))
                    /\ "\\" \notin CharsOf(e.FilePath)
                    /\ \E n \in FileNodes(fs) :
                          /\ n.path = Resolve(base, e.FilePath)
                          /\ IsUnder(n.path, base)
                          /\ n.size = e.FileSizeBytes

\* a list of the whole pack directory with a file of a subdirectory in it
C21_Witness ==
    /\ IsListResult
    /\ Len(res.list.entries) >= 2
    /\ \E i \in 1..Len(res.list.entries) :
          /\ "/" \in CharsOf(res.list.entries[i].FilePath)
          /\ res.list.entries[i].FileSizeBytes > 0

\* the positions in fsys of the files under dir with a video or hash-only
\* extension
BigNodes(fsys, dir) ==
    VideoNodes(fsys, dir) \cup
    {i \in 1..Len(fsys) :
        /\ ~fsys[i].dir
        /\ IsUnder(fsys[i].path, dir)
        /\ ToLower(Ext(Base(fsys[i].path))) \in {".iso", ".img"}}

IsBiggestResult == pc = "scanned" /\ res.kind = "findBiggestFile"

(* C22 as stated: when the walk of findBiggestFile meets no error and the   *)
(* tree holds a file with a video or hash-only extension, the result is    *)
(* such a file, none of them is larger, and none of the same size comes    *)
(* earlier in the walk; this also when all of them have size 0.            *)
C22_AsStated ==
    IsBiggestResult /\ ~res.err /\ BigNodes(fs, finalDir) # {}
    => \E i \in BigNodes(fs, finalDir) :
          /\ res.file = fs[i].path
          /\ \A j \in BigNodes(fs, finalDir) :
                /\ fs[j].size <= fs[i].size
                /\ fs[j].size = fs[i].size => i <= j

\* the part of C22 the code keeps: the same when a candidate is not empty
C22_WhenNotEmpty ==
    /\ IsBiggestResult /\ ~res.err
    /\ \E j \in BigNodes(fs, finalDir) : fs[j].size > 0
    => \E i \in BigNodes(fs, finalDir) :
          /\ res.file = fs[i].path
          /\ \A j \in BigNodes(fs, finalDir) :
                /\ fs[j].size <= fs[i].size
                /\ fs[j].size = fs[i].size => i <= j

(* C23: the key of the unit extractEpisodeInfo returns is E and the        *)
(* episode digits of the leftmost season/episode token of the name it      *)
(* reads (file name in the pack directory, else directory name), also when *)
(* the name holds an ISO date as well; it is the leftmost ISO date only    *)
(* when the name holds no such token; a name with neither gives a unit     *)
(* with an empty key and an empty release name.                            *)
C23_TokenBeforeDate ==
    IsUnitResult =>
        LET name == IdentityName(res.unit.VideoFile)
        IN  /\ EpisodeStarts(name) # {}
                => res.unit.EpisodeNum = "E" \o FindEpisode(name).episode
            /\ EpisodeStarts(name) = {} /\ FindIsoDate(name).found
                => res.unit.EpisodeNum = FindIsoDate(name).date
            /\ EpisodeStarts(name) = {} /\ ~FindIsoDate(name).found
                => res.unit.EpisodeNum = "" /\ res.unit.ReleaseName = ""

\* the unit of a file name with both a token and a date is keyed by the token
C23_Witness ==
    /\ IsUnitResult
    /\ res.unit.VideoFile.Name = TokenAndDateFile
    /\ FindIsoDate(IdentityName(res.unit.VideoFile)).found
    /\ res.unit.EpisodeNum = "E07"

---------------------------------------------------------------------------
(* C24 as stated: the unit extractEpisodeInfo returns for a video in an    *)
(* entirely lower-case subdirectory whose name holds a season/episode      *)
(* token and has the prefix of the pack name has an empty release name and *)
(* an empty episode key.                                                   *)
C24_AsStated ==
    IsUnitResult
    /\ ~InPackDir(res.unit)
    /\ EpisodeStarts(UnitDirName(res.unit)) # {}
    /\ PrefixesAgree(UnitDirName(res.unit), jobName)
    /\ ~HasUpper(UnitDirName(res.unit))
    => /\ res.unit.ReleaseName = ""
       /\ res.unit.EpisodeNum = ""

---------------------------------------------------------------------------
\* the positions in uploads of the requests of upload call i (0: the single
\* release, i >= 1: episode i)
StepsOf(i) == {k \in 1..Len(uploads) : uploads[k].idx = i}

SucceededSteps(i) == Cardinality({k \in StepsOf(i) : uploads[k].ok})

\* the failed steps of upload call i: the requests that failed, an NFO that
\* could not be read (so was never sent), a file list that could not be built
FailedSteps(i, nfoFile, list) ==
    Cardinality({k \in StepsOf(i) : ~uploads[k].ok})
    + (IF nfoFile # NoPath /\ ~\E k \in StepsOf(i) : uploads[k].type = "NFO"
       THEN 1 ELSE 0)
    + (IF list.err THEN 1 ELSE 0)

ResultFits(result, failed, succeeded) ==
    /\ result = "nil" <=> failed = 0
    /\ result = "partial_failure" <=> failed > 0 /\ succeeded > 0
    /\ result = "total_failure" <=> failed > 0 /\ succeeded = 0

\* the file list is sent exactly when it was built and has entries, whatever
\* happened to the MediaInfo and the NFO
ListAttempted(i, list) ==
    (\E k \in StepsOf(i) : uploads[k].type = "FileList")
        <=> (~list.err /\ Len(list.entries) > 0)

\* the NFO is read whenever there is one, whatever happened to the MediaInfo:
\* all its requests are for a unit that has an NFO
NfoAttempted(i, nfoFile) ==
    (\E k \in StepsOf(i) : uploads[k].type = "NFO") => nfoFile # NoPath

(* C25: the result of uploadEpisodeToCrowdNFO for the episode just         *)
(* processed, and of uploadToCrowdNFO for a single release, is nil exactly *)
(* when no step failed, partial_failure exactly when a step failed and one *)
(* succeeded, total_failure exactly when a step failed and none succeeded; *)
(* the file list is sent whenever it was built with entries, whatever the  *)
(* outcome of the MediaInfo and NFO steps.                                 *)
C25_UploadResult ==
    /\ pc = "episode" /\ idx >= 2 /\ results[idx - 1] # "hash_failed"
       => LET i == idx - 1
              list == createEpisodeFileList(fs, episodes[i])
          IN  /\ ResultFits(results[i],
                            FailedSteps(i, episodes[i].NFOFile, list),
                            SucceededSteps(i))
              /\ ListAttempted(i, list)
              /\ NfoAttempted(i, episodes[i].NFOFile)
    /\ pc = "exit" /\ res.kind = "exit" /\ res.path = "single"
       => LET list == createFileList(fs, finalDir)
              nfoFile == findNFOFile(fs, finalDir)
          IN  /\ ResultFits(results[1], FailedSteps(0, nfoFile, list),
                            SucceededSteps(0))
              /\ ListAttempted(0, list)
              /\ NfoAttempted(0, nfoFile)

\* an episode whose NFO request failed while its MediaInfo and its file
\* list were sent
C25_Witness ==
    /\ pc = "episode" /\ idx >= 2
    /\ results[idx - 1] = "partial_failure"
    /\ \E k \in StepsOf(idx - 1) : uploads[k].type = "NFO" /\ ~uploads[k].ok
    /\ \E k \in StepsOf(idx - 1) : uploads[k].type = "MediaInfo" /\ uploads[k].ok
    /\ \E k \in StepsOf(idx - 1) : uploads[k].type = "FileList" /\ uploads[k].ok

---------------------------------------------------------------------------
\* the category of the run is in excluded_categories, whatever the case of
\* its letters
CategoryIsExcluded ==
    \E x \in config.ExcludedCategories : ToLower(x) = ToLower(qbtCategory)

\* what holds of a state of the run after the title check
TitleInUse ==
    /\ pc = "exit" /\ res.kind = "exit" /\ res.path \in {"excluded", "umlaut"}
          => uploads = <<>> /\ ppCalls = 1
    /\ pc = "archive" /\ res.title # "" => jobName = res.title
    /\ pc = "archive" /\ res.title = "" => jobName = Base(finalDir)
    /\ pc = "detect" => res.dir = <<"archive", jobName>>
    /\ pc = "detected" => (res.pack <=> HasSeasonWord(jobName)
                                        \/ isSeasonPackFallback(fs, finalDir))
    /\ \A k \in 1..Len(uploads) : uploads[k].idx = 0 => uploads[k].unit = jobName

(* C26: a run whose category is excluded (compared without regard to       *)
(* case) and a run whose UmlautAdaptarr check fails go in one step to      *)
(* post-processing and exit with no upload made; a non-empty title         *)
(* returned by UmlautAdaptarr becomes the release name, which is the name  *)
(* pack detection tests, the name of the archive directory and the name    *)
(* the uploads of a single release are made under, and no later step       *)
(* changes it.                                                             *)
C26_EarlyExitsAndTitle ==
    /\ []TitleInUse
    /\ [][ /\ pc = "category" /\ CategoryIsExcluded
               => pc' = "exit" /\ ppCalls' = ppCalls + 1 /\ uploads' = <<>>
           /\ pc = "umlaut" /\ pc' # "archive"
               => pc' = "exit" /\ ppCalls' = ppCalls + 1 /\ uploads' = <<>>
           /\ pc # "umlaut" => jobName' = jobName ]_vars

\* a release named as a pack, retitled by UmlautAdaptarr to a name that is
\* none, was handled as a single release and uploaded under the title
C26_Witness ==
    /\ pc = "exit" /\ res.kind = "exit" /\ res.path = "single"
    /\ Base(finalDir) = "Show.Name.S01.1080p"
    /\ jobName = "Movie.Title.2024.1080p"
    /\ \E k \in 1..Len(uploads) : uploads[k].idx = 0 /\ uploads[k].unit = jobName

---------------------------------------------------------------------------
(* C27 as stated: the episodes processSeasonPack accepts in one run have   *)
(* pairwise different release names, whether the pack was detected by its  *)
(* name or by the count of its video files.                                *)
C27_AsStated ==
    pc = "episode" =>
        \A i, j \in 1..Len(episodes) :
            i # j => episodes[i].ReleaseName # episodes[j].ReleaseName

---------------------------------------------------------------------------
(* C28 as stated: for every accepted unit, extractEpisodeInfo read the     *)
(* identity from the file name (the directory of the video is named as the *)
(* pack, whatever the case) exactly when createEpisodeFileList finds more  *)
(* than one video file in the directory of the video.                      *)
C28_AsStated ==
    IsListResult /\ ~res.list.err
    => (InPackDir(res.unit)
          <=> Cardinality(VideosIn(fs, res.unit.VideoFile.Dir)) > 1)

---------------------------------------------------------------------------
(* C29 as stated: for every accepted unit with a token key whose video     *)
(* lies in the pack directory beside another video, the episode number     *)
(* that extractEpisodeNumber reads from the base name of the video equals  *)
(* the EpisodeNum of the unit.                                             *)
C29_AsStated ==
    IsUnitResult
    /\ res.unit.ReleaseName # ""
    /\ IsTokenKey(res.unit.EpisodeNum)
    /\ SharedLayout(fs, res.unit)
    => extractEpisodeNumber(TrimSuffix(res.unit.VideoFile.Name,
                                       Ext(res.unit.VideoFile.Name)))
         = res.unit.EpisodeNum

---------------------------------------------------------------------------
\* the nodes of fsys at or under root
Under(fsys, root) == {n \in Range(fsys) : IsUnder(n.path, root)}

IsBesideResult == pc = "compared" /\ res.kind = "createEpisodeFileList beside"

(* C30 as stated: on two file systems that hold the same nodes at and      *)
(* under the release root and differ only beside it, createEpisodeFileList *)
(* gives the same entries and the same error for the same episode.         *)
C30_AsStated ==
    IsBesideResult /\ Under(res.beside, finalDir) = Under(fs, finalDir)
    => res.other = res.list

====
